---- MODULE Spec2Model ----
(***************************************************************************)
(* A model of the MCML compiler core (uniquify, desugar_asserts,           *)
(* linearize, select_instructions, assign_homes, insert_jmps,              *)
(* reify_locations, emit_text) and of the command runtime the emitted      *)
(* package runs on.                                                        *)
(*                                                                         *)
(* Syntax trees are tuples whose first element is the variant name, e.g.   *)
(* <<"Plus", l, r>>; a Var is represented by its id (two Vars are equal    *)
(* iff their ids are, and VarFactory never issues an id twice); block and  *)
(* edge indices are petgraph's, counted from 0.                            *)
(***************************************************************************)
EXTENDS Integers, Sequences, FiniteSets, TLC

\* ------------------------------------------------------------------ bounds
MaxStmts == 3
MaxTests == 2

\* The greatest stack offset, and the number of stack instructions, of the
\* runs of spilled code.
MaxOffset == 11

MaxStackOps == 3

\* The greatest color of the runs of from_color and to_color.
MaxColor == 20
\* Nodes of the graphs color_graph is run on by itself.
MaxNodes == 4

\* ----------------------------------------------------------------- helpers
Tag(x) == x[1]

Range(s) == {s[i] : i \in 1..Len(s)}

Reverse(s) == [i \in 1..Len(s) |-> s[Len(s) + 1 - i]]

RECURSIVE Flatten(_)
Flatten(ss) == IF ss = <<>> THEN <<>> ELSE Head(ss) \o Flatten(Tail(ss))

Min(S) == CHOOSE x \in S : \A y \in S : x <= y

\* ------------------------------------------------------------- the input
\* parse::Expr / parse::Statement as uniquify consumes them (If and Eq
\* included: uniquify_expr matches on both).
Names == {"a", "b"}

TestNames == <<"t1", "t2", "t3", "t4">>

VA == <<"Variable", "a">>
VB == <<"Variable", "b">>

StmtPool ==
    { <<"Let", "a", <<"LitBool", FALSE>>>>,
      <<"Let", "a", <<"LitInt", 1>>>>,
      <<"Let", "b", <<"LitInt", 2>>>>,
      <<"Let", "b", VA>>,
      <<"Let", "b", <<"If", VA, <<"LitInt", 2>>, <<"LitInt", 1>>>>>>,
      <<"Let", "a", <<"If", <<"Eq", VA, <<"LitInt", 1>>>>, VA, VB>>>>,
      <<"Assert", VA>>,
      <<"Assert", <<"LitBool", FALSE>>>>,
      <<"AssertEq", <<"Plus", VA, <<"Plus", VA, VB>>>>, <<"LitInt", 4>>>>,
      <<"Command", "say hi">> }

StmtSeqs(n) == UNION {[1..k -> StmtPool] : k \in 0..n}

\* Two Lets, and statements the passes after linearize treat in ways of
\* their own: an AssertEq of two variables, assertions that are ill typed,
\* and a comparison of nested arithmetic with a constant.
ExtraPool ==
    { <<"Let", "a", <<"LitInt", 1>>>>,
      <<"Let", "b", <<"LitInt", 2>>>>,
      <<"AssertEq", VA, VB>>,
      <<"Assert", <<"LitInt", 1>>>>,
      <<"AssertEq", <<"LitInt", 1>>, <<"LitBool", TRUE>>>>,
      <<"Let", "b", <<"Eq", <<"Plus", <<"Plus", VA, <<"LitInt", 1>>>>,
                                      <<"Plus", <<"LitInt", 2>>, VA>>>>,
                            <<"LitInt", 5>>>>>> }

ExtraSeqs(n) == UNION {[1..k -> ExtraPool] : k \in 0..n}

\* Tests that start with a Let and go on with statements that use its
\* variable: one of them, or a shadowing Let and a use of the new binding.
ShortTests ==
    {<<<<"Let", "a", <<"LitBool", FALSE>>>>, s>> :
        s \in {<<"Assert", VA>>, <<"Let", "b", VA>>, <<"Let", "a", VA>>}}
    \cup {<<<<"Let", "a", <<"LitBool", FALSE>>>>, <<"Let", "a", VA>>, <<"Assert", VA>>>>}

\* Programs of one test with up to MaxStmts statements of one of the two
\* pools, and programs of up to MaxTests tests that have at most one
\* statement or are short tests.
Programs ==
    {<<[name |-> TestNames[1], stmts |-> s]>> :
        s \in StmtSeqs(MaxStmts) \cup ExtraSeqs(MaxStmts)}
    \cup UNION {{[i \in 1..n |-> [name |-> TestNames[i], stmts |-> f[i]]] :
                    f \in [1..n -> StmtSeqs(1) \cup ShortTests]} : n \in 2..MaxTests}

\* ---------------------------------------------------------------- uniquify
BinaryTags == {"Plus", "Minus", "Times", "Divide"}

\* The names an expression looks up in the environment (env[&name]).
RECURSIVE Lookups(_)
Lookups(expr) ==
    CASE Tag(expr) \in {"LitBool", "LitInt"} -> {}
      [] Tag(expr) = "Variable" -> {expr[2]}
      [] Tag(expr) \in BinaryTags \cup {"Eq"} -> Lookups(expr[2]) \cup Lookups(expr[3])
      [] Tag(expr) = "If" -> Lookups(expr[2]) \cup Lookups(expr[3]) \cup Lookups(expr[4])

RECURSIVE uniquify_expr(_, _)
uniquify_expr(env, expr) ==
    CASE Tag(expr) \in {"LitBool", "LitInt"} -> expr
      [] Tag(expr) = "Variable" -> <<"Variable", env[expr[2]]>>
      [] Tag(expr) \in BinaryTags \cup {"Eq"} ->
            <<Tag(expr), uniquify_expr(env, expr[2]), uniquify_expr(env, expr[3])>>
      [] Tag(expr) = "If" ->
            <<"If", uniquify_expr(env, expr[2]), uniquify_expr(env, expr[3]),
              uniquify_expr(env, expr[4])>>

\* The expressions of a statement that uniquify_test resolves.
StmtExprs(stmt) ==
    CASE Tag(stmt) = "Assert" -> <<stmt[2]>>
      [] Tag(stmt) = "AssertEq" -> <<stmt[2], stmt[3]>>
      [] Tag(stmt) = "Command" -> <<>>
      [] Tag(stmt) = "Let" -> <<stmt[3]>>

\* The iteration of uniquify_test's loop with the Let arm extending the
\* environment before it resolves the right-hand side.
uniquify_stmt_binds_first(acc, stmt) ==
    LET env == IF Tag(stmt) = "Let"
               THEN [n \in DOMAIN acc.env \cup {stmt[2]} |->
                        IF n = stmt[2] THEN acc.next_var_id ELSE acc.env[n]]
               ELSE acc.env
    IN  IF acc.panic \/ \E i \in 1..Len(StmtExprs(stmt)) :
                           ~(Lookups(StmtExprs(stmt)[i]) \subseteq DOMAIN env)
        THEN [acc EXCEPT !.panic = TRUE]
        ELSE CASE Tag(stmt) = "Assert" ->
                    [acc EXCEPT !.stmts = Append(@, <<"Assert", uniquify_expr(env, stmt[2])>>)]
               [] Tag(stmt) = "AssertEq" ->
                    [acc EXCEPT !.stmts = Append(@, <<"AssertEq", uniquify_expr(env, stmt[2]),
                                                      uniquify_expr(env, stmt[3])>>)]
               [] Tag(stmt) = "Command" -> [acc EXCEPT !.stmts = Append(@, stmt)]
               [] Tag(stmt) = "Let" ->
                    [env |-> env,
                     next_var_id |-> acc.next_var_id + 1,
                     stmts |-> Append(acc.stmts, <<"Let", acc.next_var_id,
                                                   uniquify_expr(env, stmt[3])>>),
                     panic |-> FALSE]

\* One iteration of uniquify_test's loop. acc = [env, next_var_id, stmts,
\* panic]; indexing the environment with an unbound name panics.
uniquify_stmt(acc, stmt) ==
    IF acc.panic \/ \E i \in 1..Len(StmtExprs(stmt)) :
                       ~(Lookups(StmtExprs(stmt)[i]) \subseteq DOMAIN acc.env)
    THEN [acc EXCEPT !.panic = TRUE]
    ELSE CASE Tag(stmt) = "Assert" ->
                [acc EXCEPT !.stmts = Append(@, <<"Assert", uniquify_expr(acc.env, stmt[2])>>)]
           [] Tag(stmt) = "AssertEq" ->
                [acc EXCEPT !.stmts = Append(@, <<"AssertEq", uniquify_expr(acc.env, stmt[2]),
                                                  uniquify_expr(acc.env, stmt[3])>>)]
           [] Tag(stmt) = "Command" -> [acc EXCEPT !.stmts = Append(@, stmt)]
           [] Tag(stmt) = "Let" ->
                [env |-> [n \in DOMAIN acc.env \cup {stmt[2]} |->
                            IF n = stmt[2] THEN acc.next_var_id ELSE acc.env[n]],
                 next_var_id |-> acc.next_var_id + 1,
                 stmts |-> Append(acc.stmts, <<"Let", acc.next_var_id,
                                               uniquify_expr(acc.env, stmt[3])>>),
                 panic |-> FALSE]

RECURSIVE uniquify_stmts(_, _)
uniquify_stmts(acc, stmts) ==
    IF stmts = <<>> THEN acc
    ELSE uniquify_stmts(uniquify_stmt(acc, Head(stmts)), Tail(stmts))

\* uniquify_test with a VarFactory of its own, counting from 0 again.
uniquify_test_own_factory(next_var_id, name, stmts) ==
    uniquify_stmts([env |-> <<>>, next_var_id |-> 0, stmts |-> <<>>,
                    panic |-> FALSE], stmts)

\* uniquify_test starts from an empty environment and shares the factory.
uniquify_test(next_var_id, name, stmts) ==
    uniquify_stmts([env |-> <<>>, next_var_id |-> next_var_id, stmts |-> <<>>,
                    panic |-> FALSE], stmts)

RECURSIVE uniquify_defs(_, _)
uniquify_defs(prog, defs) ==
    IF defs = <<>> THEN prog
    ELSE LET t == uniquify_test(prog.var_factory, Head(defs).name, Head(defs).stmts)
         IN  uniquify_defs([defs |-> Append(prog.defs, [name |-> Head(defs).name,
                                                         stmts |-> t.stmts]),
                            var_factory |-> t.next_var_id,
                            panic |-> prog.panic \/ t.panic],
                           Tail(defs))

uniquify(defs) == uniquify_defs([defs |-> <<>>, var_factory |-> 0, panic |-> FALSE], defs)

\* --------------------------------------------------------- desugar_asserts
RECURSIVE desugar_asserts_expr(_)
desugar_asserts_expr(expr) ==
    CASE Tag(expr) \in {"LitBool", "LitInt", "Variable"} -> expr
      [] Tag(expr) \in BinaryTags \cup {"Eq"} ->
            <<Tag(expr), desugar_asserts_expr(expr[2]), desugar_asserts_expr(expr[3])>>
      [] Tag(expr) = "If" ->
            <<"If", desugar_asserts_expr(expr[2]), desugar_asserts_expr(expr[3]),
              desugar_asserts_expr(expr[4])>>

NotOkBundle(test_name) == <<"Bundle", <<<<"TellNotOk", test_name>>>>, <<"LitUnit">>>>

\* desugar_asserts_stmts with the continuation placed after the if of an
\* Assert instead of inside its then-bundle.
desugar_asserts_stmts_continues_after_if(test_name, stmt, continuation) ==
    CASE Tag(stmt) = "Assert" ->
            << <<"Expr", <<"If", desugar_asserts_expr(stmt[2]),
                           <<"Bundle", <<>>, <<"LitUnit">>>>,
                           NotOkBundle(test_name)>>>> >> \o continuation
      [] Tag(stmt) = "AssertEq" ->
            << <<"Expr", <<"If", <<"Eq", desugar_asserts_expr(stmt[2]),
                                        desugar_asserts_expr(stmt[3])>>,
                           <<"Bundle", continuation, <<"LitUnit">>>>,
                           NotOkBundle(test_name)>>>> >>
      [] Tag(stmt) = "Command" -> <<stmt>> \o continuation
      [] Tag(stmt) = "Let" ->
            << <<"Let", stmt[2], desugar_asserts_expr(stmt[3])>> >> \o continuation

desugar_asserts_stmts(test_name, stmt, continuation) ==
    CASE Tag(stmt) = "Assert" ->
            << <<"Expr", <<"If", desugar_asserts_expr(stmt[2]),
                           <<"Bundle", continuation, <<"LitUnit">>>>,
                           NotOkBundle(test_name)>>>> >>
      [] Tag(stmt) = "AssertEq" ->
            << <<"Expr", <<"If", <<"Eq", desugar_asserts_expr(stmt[2]),
                                        desugar_asserts_expr(stmt[3])>>,
                           <<"Bundle", continuation, <<"LitUnit">>>>,
                           NotOkBundle(test_name)>>>> >>
      [] Tag(stmt) = "Command" -> <<stmt>> \o continuation
      [] Tag(stmt) = "Let" ->
            << <<"Let", stmt[2], desugar_asserts_expr(stmt[3])>> >> \o continuation

\* The loop of desugar_asserts_def over the statements in reverse.
RECURSIVE desugar_fold(_, _, _)
desugar_fold(test_name, stmts, new_stmts) ==
    IF stmts = <<>> THEN new_stmts
    ELSE desugar_fold(test_name, SubSeq(stmts, 1, Len(stmts) - 1),
                      desugar_asserts_stmts(test_name, stmts[Len(stmts)], new_stmts))

desugar_asserts_def(def) ==
    [name |-> def.name,
     stmts |-> desugar_fold(def.name, def.stmts, << <<"TellOk", def.name>> >>)]

desugar_asserts(program) ==
    [defs |-> [i \in 1..Len(program.defs) |-> desugar_asserts_def(program.defs[i])],
     var_factory |-> program.var_factory]

\* --------------------------------------------------------------- linearize
\* The graph under construction: st = [var_factory, blocks, edges, current].
\* blocks[i + 1] holds the statements of the block with index i; edges are
\* kept in the order add_edge created them.
add_node(st) == [st EXCEPT !.blocks = Append(@, <<>>)]

add_edge(st, a, b, jmp) == [st EXCEPT !.edges = Append(@, [src |-> a, dst |-> b, jmp |-> jmp])]

push_stmt(st, stmt) == [st EXCEPT !.blocks[st.current + 1] = Append(@, stmt)]

OpOf(tag) ==
    CASE tag = "Plus" -> "Plus" [] tag = "Minus" -> "Minus"
      [] tag = "Times" -> "Times" [] tag = "Divide" -> "Divide"

RECURSIVE linearize_expr(_, _), linearize_stmt(_, _), linearize_stmt_list(_, _)

\* linearize_binary and linearize_cmp lowering the right operand first.
linearize_operands_right_first(st, kind, op, left, right) ==
    LET r == linearize_expr(st, right)
        l == linearize_expr(r.st, left)
        var == l.st.var_factory
        st1 == [l.st EXCEPT !.var_factory = @ + 1]
    IN  [st |-> push_stmt(st1, <<"Assign", var, <<kind, op, l.atom, r.atom>>>>),
         atom |-> <<"Var", var>>]

\* linearize_binary and linearize_cmp: left, then right, then a fresh
\* temporary assigned in the current block. kind is "Binary" or "Cmp".
linearize_operands(st, kind, op, left, right) ==
    LET l == linearize_expr(st, left)
        r == linearize_expr(l.st, right)
        var == r.st.var_factory
        st1 == [r.st EXCEPT !.var_factory = @ + 1]
    IN  [st |-> push_stmt(st1, <<"Assign", var, <<kind, op, l.atom, r.atom>>>>),
         atom |-> <<"Var", var>>]

linearize_binary(st, op, left, right) == linearize_operands(st, "Binary", op, left, right)

linearize_cmp(st, cmp, left, right) == linearize_operands(st, "Cmp", cmp, left, right)

\* linearize_branch lowers the branch with `block` as its current block and
\* assigns the branch value to var; the result's current is the block the
\* branch ends in.
linearize_branch(st, block, var, expr) ==
    LET a == linearize_expr([st EXCEPT !.current = block], expr)
    IN  push_stmt(a.st, <<"Assign", var, <<"Atom", a.atom>>>>)

\* The If arm of linearize_expr without the edge from the end of the else
\* branch to the block after the If.
linearize_if_else_left_open(st, cond, thn, els) ==
    LET c == IF Tag(cond) = "Eq"
             THEN LET l == linearize_expr(st, cond[2])
                      r == linearize_expr(l.st, cond[3])
                  IN  [st |-> r.st, cond |-> <<"Cmp", "Eq", l.atom, r.atom>>]
             ELSE LET a == linearize_expr(st, cond)
                  IN  [st |-> a.st, cond |-> <<"Atm", a.atom>>]
        current == c.st.current
        var == c.st.var_factory
        s0 == [c.st EXCEPT !.var_factory = @ + 1]
        thn_block == Len(s0.blocks)
        s1 == linearize_branch(add_edge(add_node(s0), current, thn_block, <<"If", c.cond>>),
                               thn_block, var, thn)
        els_block == Len(s1.blocks)
        s2 == linearize_branch(add_edge(add_node(s1), current, els_block, <<"Unless", c.cond>>),
                               els_block, var, els)
        after == Len(s2.blocks)
        s3 == add_edge(add_node(s2), s1.current, after, <<"Unconditional">>)
    IN  [st |-> [s3 EXCEPT !.current = after], atom |-> <<"Var", var>>]

\* linearize_if with an edge from the join block back to the branching
\* block in the place of the edge that leaves the else-branch.
linearize_if_jumps_back(st, cond, thn, els) ==
    LET c == IF Tag(cond) = "Eq"
             THEN LET l == linearize_expr(st, cond[2])
                      r == linearize_expr(l.st, cond[3])
                  IN  [st |-> r.st, cond |-> <<"Cmp", "Eq", l.atom, r.atom>>]
             ELSE LET a == linearize_expr(st, cond)
                  IN  [st |-> a.st, cond |-> <<"Atm", a.atom>>]
        current == c.st.current
        var == c.st.var_factory
        s0 == [c.st EXCEPT !.var_factory = @ + 1]
        thn_block == Len(s0.blocks)
        s1 == linearize_branch(add_edge(add_node(s0), current, thn_block, <<"If", c.cond>>),
                               thn_block, var, thn)
        els_block == Len(s1.blocks)
        s2 == linearize_branch(add_edge(add_node(s1), current, els_block, <<"Unless", c.cond>>),
                               els_block, var, els)
        after == Len(s2.blocks)
        s3 == add_edge(add_edge(add_node(s2), s1.current, after, <<"Unconditional">>),
                       after, current, <<"Unconditional">>)
    IN  [st |-> [s3 EXCEPT !.current = after], atom |-> <<"Var", var>>]

linearize_if(st, cond, thn, els) ==
    LET c == IF Tag(cond) = "Eq"
             THEN LET l == linearize_expr(st, cond[2])
                      r == linearize_expr(l.st, cond[3])
                  IN  [st |-> r.st, cond |-> <<"Cmp", "Eq", l.atom, r.atom>>]
             ELSE LET a == linearize_expr(st, cond)
                  IN  [st |-> a.st, cond |-> <<"Atm", a.atom>>]
        current == c.st.current
        var == c.st.var_factory
        s0 == [c.st EXCEPT !.var_factory = @ + 1]
        thn_block == Len(s0.blocks)
        s1 == linearize_branch(add_edge(add_node(s0), current, thn_block, <<"If", c.cond>>),
                               thn_block, var, thn)
        els_block == Len(s1.blocks)
        s2 == linearize_branch(add_edge(add_node(s1), current, els_block, <<"Unless", c.cond>>),
                               els_block, var, els)
        after == Len(s2.blocks)
        s3 == add_edge(add_edge(add_node(s2), s1.current, after, <<"Unconditional">>),
                       s2.current, after, <<"Unconditional">>)
    IN  [st |-> [s3 EXCEPT !.current = after], atom |-> <<"Var", var>>]

linearize_expr(st, expr) ==
    CASE Tag(expr) = "LitUnit" -> [st |-> st, atom |-> <<"LitUnit">>]
      [] Tag(expr) = "Bundle" -> linearize_expr(linearize_stmt_list(st, expr[2]), expr[3])
      [] Tag(expr) = "LitBool" -> [st |-> st, atom |-> <<"LitBool", expr[2]>>]
      [] Tag(expr) = "LitInt" -> [st |-> st, atom |-> <<"LitInt", expr[2]>>]
      [] Tag(expr) = "Variable" -> [st |-> st, atom |-> <<"Var", expr[2]>>]
      [] Tag(expr) \in BinaryTags -> linearize_binary(st, OpOf(Tag(expr)), expr[2], expr[3])
      [] Tag(expr) = "If" -> linearize_if(st, expr[2], expr[3], expr[4])
      [] Tag(expr) = "Eq" -> linearize_cmp(st, "Eq", expr[2], expr[3])

linearize_stmt(st, stmt) ==
    CASE Tag(stmt) = "Expr" -> linearize_expr(st, stmt[2]).st
      [] Tag(stmt) \in {"TellOk", "TellNotOk", "Command"} -> push_stmt(st, stmt)
      [] Tag(stmt) = "Let" ->
            LET a == linearize_expr(st, stmt[3])
            IN  push_stmt(a.st, <<"Assign", stmt[2], <<"Atom", a.atom>>>>)

linearize_stmt_list(st, stmts) ==
    IF stmts = <<>> THEN st
    ELSE linearize_stmt_list(linearize_stmt(st, Head(stmts)), Tail(stmts))

\* linearize_stmts: a new entry block, the statements lowered from it; the
\* entry block's index is returned.
linearize_stmts(st, stmts) ==
    LET begin == Len(st.blocks)
    IN  [st |-> linearize_stmt_list([add_node(st) EXCEPT !.current = begin], stmts),
         begin |-> begin]

RECURSIVE linearize_defs(_, _, _)
linearize_defs(st, tests, defs) ==
    IF defs = <<>>
    THEN [blocks |-> st.blocks, edges |-> st.edges, tests |-> tests,
          var_factory |-> st.var_factory]
    ELSE LET r == linearize_stmts(st, Head(defs).stmts)
         IN  linearize_defs(r.st, Append(tests, [name |-> Head(defs).name, block |-> r.begin]),
                            Tail(defs))

linearize(program) ==
    linearize_defs([var_factory |-> program.var_factory, blocks |-> <<>>, edges |-> <<>>,
                    current |-> 0], <<>>, program.defs)

\* petgraph's edges_directed(idx, Outgoing): the edges leaving idx, the most
\* recently added first (add_edge puts the new edge at the head of the
\* node's list; Graph::map and filter_map re-add edges in index order).
Outgoing(edges, idx) ==
    LET sel == SelectSeq(edges, LAMBDA e : e.src = idx)
    IN  Reverse(sel)

\* ----------------------------------------------------- select_instructions
BoolInt(b) == IF b THEN 1 ELSE 0

Panic == <<"Panic">>

None == <<"None">>

\* select_instructions_jmp deleting the edges it has no arm for.
select_instructions_jmp_drops_ill_typed(jmp, block) ==
    IF Tag(jmp) = "Unconditional" THEN <<"Function", block>>
    ELSE
    LET if == Tag(jmp) = "If"
        cond == jmp[2]
        Const(holds) == IF holds = if THEN <<"Function", block>> ELSE None
        Matches(var, value) ==
            <<IF if THEN "ExecuteIfScoreMatchesFunction"
                    ELSE "ExecuteUnlessScoreMatchesFunction", var, value, block>>
    IN  IF Tag(cond) = "Atm"
        THEN CASE Tag(cond[2]) = "LitBool" -> Const(cond[2][2])
               [] Tag(cond[2]) = "Var" -> Matches(cond[2][2], 1)
               [] OTHER -> None
        ELSE LET left == cond[3]
                 right == cond[4]
             IN  CASE Tag(left) = "LitBool" /\ Tag(right) = "LitBool" ->
                        Const(left[2] = right[2])
                   [] Tag(left) = "LitInt" /\ Tag(right) = "LitInt" ->
                        Const(left[2] = right[2])
                   [] Tag(left) = "Var" /\ Tag(right) = "LitBool" ->
                        Matches(left[2], BoolInt(right[2]))
                   [] Tag(left) = "LitBool" /\ Tag(right) = "Var" ->
                        Matches(right[2], BoolInt(left[2]))
                   [] Tag(left) = "Var" /\ Tag(right) = "LitInt" -> Matches(left[2], right[2])
                   [] Tag(left) = "LitInt" /\ Tag(right) = "Var" -> Matches(right[2], left[2])
                   [] Tag(left) = "Var" /\ Tag(right) = "Var" ->
                        <<IF if THEN "ExecuteIfScoreEqualsFunction"
                                ELSE "ExecuteUnlessScoreEqualsFunction",
                          left[2], right[2], block>>
                   [] OTHER -> None

\* select_instructions_jmp treating a constant condition under Unless as
\* it treats one under If.
select_instructions_jmp_unless_as_if(jmp, block) ==
    IF Tag(jmp) = "Unconditional" THEN <<"Function", block>>
    ELSE
    LET if == Tag(jmp) = "If"
        cond == jmp[2]
        Const(holds) == IF holds THEN <<"Function", block>> ELSE None
        Matches(var, value) ==
            <<IF if THEN "ExecuteIfScoreMatchesFunction"
                    ELSE "ExecuteUnlessScoreMatchesFunction", var, value, block>>
    IN  IF Tag(cond) = "Atm"
        THEN CASE Tag(cond[2]) = "LitBool" -> Const(cond[2][2])
               [] Tag(cond[2]) = "Var" -> Matches(cond[2][2], 1)
               [] OTHER -> Panic
        ELSE LET left == cond[3]
                 right == cond[4]
             IN  CASE Tag(left) = "LitBool" /\ Tag(right) = "LitBool" ->
                        Const(left[2] = right[2])
                   [] Tag(left) = "LitInt" /\ Tag(right) = "LitInt" ->
                        Const(left[2] = right[2])
                   [] Tag(left) = "Var" /\ Tag(right) = "LitBool" ->
                        Matches(left[2], BoolInt(right[2]))
                   [] Tag(left) = "LitBool" /\ Tag(right) = "Var" ->
                        Matches(right[2], BoolInt(left[2]))
                   [] Tag(left) = "Var" /\ Tag(right) = "LitInt" -> Matches(left[2], right[2])
                   [] Tag(left) = "LitInt" /\ Tag(right) = "Var" -> Matches(right[2], left[2])
                   [] Tag(left) = "Var" /\ Tag(right) = "Var" ->
                        <<IF if THEN "ExecuteIfScoreEqualsFunction"
                                ELSE "ExecuteUnlessScoreEqualsFunction",
                          left[2], right[2], block>>
                   [] OTHER -> Panic

\* select_instructions_jmp: Some(jump), None (the edge is deleted) or a
\* panic ("Type error!").
select_instructions_jmp(jmp, block) ==
    IF Tag(jmp) = "Unconditional" THEN <<"Function", block>>
    ELSE
    LET if == Tag(jmp) = "If"
        cond == jmp[2]
        Const(holds) == IF holds = if THEN <<"Function", block>> ELSE None
        Matches(var, value) ==
            <<IF if THEN "ExecuteIfScoreMatchesFunction"
                    ELSE "ExecuteUnlessScoreMatchesFunction", var, value, block>>
    IN  IF Tag(cond) = "Atm"
        THEN CASE Tag(cond[2]) = "LitBool" -> Const(cond[2][2])
               [] Tag(cond[2]) = "Var" -> Matches(cond[2][2], 1)
               [] OTHER -> Panic
        ELSE LET left == cond[3]
                 right == cond[4]
             IN  CASE Tag(left) = "LitBool" /\ Tag(right) = "LitBool" ->
                        Const(left[2] = right[2])
                   [] Tag(left) = "LitInt" /\ Tag(right) = "LitInt" ->
                        Const(left[2] = right[2])
                   [] Tag(left) = "Var" /\ Tag(right) = "LitBool" ->
                        Matches(left[2], BoolInt(right[2]))
                   [] Tag(left) = "LitBool" /\ Tag(right) = "Var" ->
                        Matches(right[2], BoolInt(left[2]))
                   [] Tag(left) = "Var" /\ Tag(right) = "LitInt" -> Matches(left[2], right[2])
                   [] Tag(left) = "LitInt" /\ Tag(right) = "Var" -> Matches(right[2], left[2])
                   [] Tag(left) = "Var" /\ Tag(right) = "Var" ->
                        <<IF if THEN "ExecuteIfScoreEqualsFunction"
                                ELSE "ExecuteUnlessScoreEqualsFunction",
                          left[2], right[2], block>>
                   [] OTHER -> Panic

op_assign(op) ==
    CASE op = "Plus" -> "PlusEquals" [] op = "Minus" -> "MinusEquals"
      [] op = "Times" -> "TimesEquals" [] op = "Divide" -> "DivideEquals"

MatchesSetPair(v, value, var) ==
    << <<"ExecuteIfScoreMatchesSet", v, value, var, 1>>,
       <<"ExecuteUnlessScoreMatchesSet", v, value, var, 0>> >>

\* The instructions selected for Assign(var, Cmp(Eq, left, right)).
select_cmp(var, left, right) ==
    CASE Tag(left) = "LitInt" /\ Tag(right) = "LitInt" ->
            << <<"Set", var, BoolInt(left[2] = right[2])>> >>
      [] Tag(left) = "LitBool" /\ Tag(right) = "LitBool" ->
            << <<"Set", var, BoolInt(left[2] = right[2])>> >>
      [] Tag(left) = "Var" /\ Tag(right) = "LitInt" -> MatchesSetPair(left[2], right[2], var)
      [] Tag(left) = "LitInt" /\ Tag(right) = "Var" -> MatchesSetPair(right[2], left[2], var)
      [] Tag(left) = "Var" /\ Tag(right) = "LitBool" ->
            MatchesSetPair(left[2], BoolInt(right[2]), var)
      [] Tag(left) = "LitBool" /\ Tag(right) = "Var" ->
            MatchesSetPair(right[2], BoolInt(left[2]), var)
      [] Tag(left) = "Var" /\ Tag(right) = "Var" ->
            << <<"ExecuteIfScoreEqualsSet", left[2], right[2], var, 1>>,
               <<"ExecuteUnlessScoreEqualsSet", left[2], right[2], var, 0>> >>
      [] OTHER -> <<Panic>>

\* select_load_left with source and destination of the move exchanged.
select_load_left_into_source(var, left) ==
    CASE Tag(left) = "LitUnit" -> Panic
      [] Tag(left) = "LitInt" -> <<"Set", var, left[2]>>
      [] Tag(left) = "LitBool" -> <<"Set", var, BoolInt(left[2])>>
      [] Tag(left) = "Var" -> <<"Operation", "Equals", var, left[2]>>

\* The load-left instruction of Assign(var, Binary(op, left, right)).
select_load_left(var, left) ==
    CASE Tag(left) = "LitUnit" -> Panic
      [] Tag(left) = "LitInt" -> <<"Set", var, left[2]>>
      [] Tag(left) = "LitBool" -> <<"Set", var, BoolInt(left[2])>>
      [] Tag(left) = "Var" -> <<"Operation", "Equals", left[2], var>>

\* The apply-right instructions; tmp is the id var_factory.tmp() would give.
select_apply_right(var, op, right, tmp) ==
    CASE Tag(right) = "LitUnit" -> <<Panic>>
      [] Tag(right) = "LitInt" ->
            << <<"Set", tmp, right[2]>>, <<"Operation", op_assign(op), tmp, var>> >>
      [] Tag(right) = "LitBool" ->
            << <<"Set", tmp, BoolInt(right[2])>>, <<"Operation", op_assign(op), tmp, var>> >>
      [] Tag(right) = "Var" -> << <<"Operation", op_assign(op), right[2], var>> >>

\* select_instructions_stmt: [instrs, var_factory].
select_instructions_stmt(stmt, var_factory) ==
    CASE Tag(stmt) = "TellOk" ->
            [instrs |-> << <<"Tellraw", <<"ok - ", stmt[2]>>>> >>, var_factory |-> var_factory]
      [] Tag(stmt) = "TellNotOk" ->
            [instrs |-> << <<"Tellraw", <<"not ok - ", stmt[2]>>>> >>,
             var_factory |-> var_factory]
      [] Tag(stmt) = "Command" ->
            [instrs |-> << <<"Command", stmt[2]>> >>, var_factory |-> var_factory]
      [] Tag(stmt) = "Assign" ->
            LET var == stmt[2]
                expr == stmt[3]
            IN  CASE Tag(expr) = "Atom" ->
                        [instrs |->
                            CASE Tag(expr[2]) = "LitUnit" -> <<>>
                              [] Tag(expr[2]) = "LitInt" -> << <<"Set", var, expr[2][2]>> >>
                              [] Tag(expr[2]) = "LitBool" ->
                                    << <<"Set", var, BoolInt(expr[2][2])>> >>
                              [] Tag(expr[2]) = "Var" ->
                                    << <<"Operation", "Equals", expr[2][2], var>> >>,
                         var_factory |-> var_factory]
                  [] Tag(expr) = "Cmp" ->
                        [instrs |-> select_cmp(var, expr[3], expr[4]),
                         var_factory |-> var_factory]
                  [] Tag(expr) = "Binary" ->
                        [instrs |-> <<select_load_left(var, expr[3])>>
                                    \o select_apply_right(var, expr[2], expr[4], var_factory),
                         var_factory |->
                            IF Tag(expr[4]) \in {"LitInt", "LitBool"}
                            THEN var_factory + 1 ELSE var_factory]

RECURSIVE select_instructions_block(_, _, _)
select_instructions_block(stmts, var_factory, instrs) ==
    IF stmts = <<>> THEN [instrs |-> instrs, var_factory |-> var_factory]
    ELSE LET r == select_instructions_stmt(Head(stmts), var_factory)
         IN  select_instructions_block(Tail(stmts), r.var_factory, instrs \o r.instrs)

\* The node closure of filter_map, applied to the blocks in index order.
RECURSIVE select_blocks(_, _, _)
select_blocks(blocks, var_factory, out) ==
    IF blocks = <<>> THEN out
    ELSE LET r == select_instructions_block(Head(blocks), var_factory, <<>>)
         IN  select_blocks(Tail(blocks), r.var_factory, Append(out, r.instrs))

select_instructions(program) ==
    LET blocks == select_blocks(program.blocks, program.var_factory, <<>>)
        jmps == [i \in 1..Len(program.edges) |->
                    [src |-> program.edges[i].src, dst |-> program.edges[i].dst,
                     jmp |-> select_instructions_jmp(program.edges[i].jmp,
                                                     program.edges[i].dst)]]
    IN  [blocks |-> blocks,
         edges |-> SelectSeq(jmps, LAMBDA e : e.jmp # None),
         tests |-> program.tests,
         panic |-> \/ \E i \in 1..Len(jmps) : jmps[i].jmp = Panic
                   \/ \E b \in 1..Len(blocks) : \E i \in 1..Len(blocks[b]) :
                          blocks[b][i] = Panic]

\* ------------------------------------------------- assign_homes: analyses
MatchesSets == {"ExecuteIfScoreMatchesSet", "ExecuteUnlessScoreMatchesSet"}

EqualsSets == {"ExecuteIfScoreEqualsSet", "ExecuteUnlessScoreEqualsSet"}

MatchesFunctions == {"ExecuteIfScoreMatchesFunction", "ExecuteUnlessScoreMatchesFunction"}

EqualsFunctions == {"ExecuteIfScoreEqualsFunction", "ExecuteUnlessScoreEqualsFunction"}

write_set(instr) ==
    CASE Tag(instr) = "Set" -> {instr[2]}
      [] Tag(instr) = "Operation" -> {instr[4]}
      [] Tag(instr) \in {"Tellraw", "Command"} -> {}
      [] Tag(instr) \in MatchesSets -> {instr[4]}
      [] Tag(instr) \in EqualsSets -> {instr[4]}

\* read_set with the destination of an arithmetic Operation left out.
read_set_source_only(instr) ==
    CASE Tag(instr) = "Set" -> {}
      [] Tag(instr) = "Operation" -> {instr[3]}
      [] Tag(instr) \in {"Tellraw", "Command"} -> {}
      [] Tag(instr) \in MatchesSets -> {instr[2]}
      [] Tag(instr) \in EqualsSets -> {instr[2], instr[3]}

read_set(instr) ==
    CASE Tag(instr) = "Set" -> {}
      [] Tag(instr) = "Operation" ->
            IF instr[2] = "Equals" THEN {instr[3]} ELSE {instr[3], instr[4]}
      [] Tag(instr) \in {"Tellraw", "Command"} -> {}
      [] Tag(instr) \in MatchesSets -> {instr[2]}
      [] Tag(instr) \in EqualsSets -> {instr[2], instr[3]}

\* L_before(k) = (L_after(k) - W(k)) + R(k)
uncover_live_before(instr, live_after) == (live_after \ write_set(instr)) \cup read_set(instr)

\* uncover_live_before_jmp leaving the variable of a matches-guard out.
uncover_live_before_jmp_without_guard(jmp, annotated_blocks) ==
    CASE Tag(jmp) \in MatchesFunctions -> annotated_blocks[jmp[4]].live_before
      [] Tag(jmp) \in EqualsFunctions ->
            annotated_blocks[jmp[4]].live_before \cup {jmp[2], jmp[3]}
      [] Tag(jmp) = "Function" -> annotated_blocks[jmp[2]].live_before

\* annotated_blocks is a function from the indices of the blocks already
\* processed to their annotated blocks.
uncover_live_before_jmp(jmp, annotated_blocks) ==
    CASE Tag(jmp) \in MatchesFunctions ->
            annotated_blocks[jmp[4]].live_before \cup {jmp[2]}
      [] Tag(jmp) \in EqualsFunctions ->
            annotated_blocks[jmp[4]].live_before \cup {jmp[2], jmp[3]}
      [] Tag(jmp) = "Function" -> annotated_blocks[jmp[2]].live_before

\* The annotated instructions are pushed while walking the block backwards
\* and stay in that order: the block's last instruction comes first.
RECURSIVE uncover_live_block_loop(_, _, _)
uncover_live_block_loop(instrs, live_after, out) ==
    IF instrs = <<>> THEN [instrs |-> out, live_before |-> live_after]
    ELSE LET instr == instrs[Len(instrs)]
         IN  uncover_live_block_loop(SubSeq(instrs, 1, Len(instrs) - 1),
                                     uncover_live_before(instr, live_after),
                                     Append(out, [instr |-> instr, live_after |-> live_after]))

uncover_live_block(instrs, live_after) == uncover_live_block_loop(instrs, live_after, <<>>)

\* The live set at the exit of a block: the union over its outgoing edges.
live_after_exit(program, block, annotated_blocks) ==
    UNION {uncover_live_before_jmp(e.jmp, annotated_blocks) :
              e \in Range(Outgoing(program.edges, block))}

\* The loop of uncover_live over a reversed topological order: a block is
\* processed once all its successors are. toposort fails, and unwrap
\* panics, when the graph has a cycle: then no block is ready.
RECURSIVE uncover_live_loop(_, _)
uncover_live_loop(program, annotated_blocks) ==
    LET all == 0..(Len(program.blocks) - 1)
        left == all \ DOMAIN annotated_blocks
        ready == {b \in left : \A e \in Range(program.edges) :
                                  e.src = b => e.dst \in DOMAIN annotated_blocks}
    IN  IF left = {} THEN [blocks |-> annotated_blocks, panic |-> FALSE]
        ELSE IF ready = {} THEN [blocks |-> annotated_blocks, panic |-> TRUE]
        ELSE LET block == CHOOSE b \in ready : \A c \in ready : c <= b
                 done == uncover_live_block(program.blocks[block + 1],
                                            live_after_exit(program, block, annotated_blocks))
             IN  uncover_live_loop(program,
                    [b \in DOMAIN annotated_blocks \cup {block} |->
                        IF b = block THEN done ELSE annotated_blocks[b]])

uncover_live(program) ==
    LET r == uncover_live_loop(program, <<>>)
    IN  [blocks |-> IF r.panic THEN <<>>
                    ELSE [i \in 1..Len(program.blocks) |-> r.blocks[i - 1]],
         tests |-> program.tests,
         panic |-> r.panic]

\* collect_vars_instr with the arm for Set collecting nothing.
collect_vars_instr_without_set(instr) ==
    CASE Tag(instr) = "Set" -> {}
      [] Tag(instr) = "Operation" -> {instr[3], instr[4]}
      [] Tag(instr) \in {"Tellraw", "Command"} -> {}
      [] Tag(instr) \in MatchesSets -> {instr[2], instr[4]}
      [] Tag(instr) \in EqualsSets -> {instr[2], instr[3], instr[4]}

\* collect_vars_instr, the same in build_interference and in build_move.
collect_vars_instr(instr) ==
    CASE Tag(instr) = "Set" -> {instr[2]}
      [] Tag(instr) = "Operation" -> {instr[3], instr[4]}
      [] Tag(instr) \in {"Tellraw", "Command"} -> {}
      [] Tag(instr) \in MatchesSets -> {instr[2], instr[4]}
      [] Tag(instr) \in EqualsSets -> {instr[2], instr[3], instr[4]}

\* collect_vars over a sequence of blocks of plain instructions.
collect_vars(blocks) ==
    UNION {UNION {collect_vars_instr(blocks[b][i]) : i \in 1..Len(blocks[b])} :
              b \in 1..Len(blocks)}

\* The edge {u, v} of an undirected graph without parallel edges.
Edge(u, v) == {u, v}

build_move_instr(instr) ==
    IF Tag(instr) = "Operation" /\ instr[2] = "Equals"
    THEN {Edge(instr[3], instr[4])} ELSE {}

build_move(program) ==
    [nodes |-> collect_vars(program.blocks),
     edges |-> UNION {UNION {build_move_instr(program.blocks[b][i]) :
                                i \in 1..Len(program.blocks[b])} :
                         b \in 1..Len(program.blocks)}]

move_related(move_graph, a, b) == Edge(a, b) \in move_graph.edges

\* build_interference_instr adding edges for the Operations alone.
build_interference_instr_operations_only(ai) ==
    IF Tag(ai.instr) # "Operation" THEN {}
    ELSE {{ai.instr[4], var} :
            var \in {v \in ai.live_after :
                        /\ v # ai.instr[4]
                        /\ ~(ai.instr[2] = "Equals" /\ v = ai.instr[3])}}

\* build_interference_instr adding no edge for a move.
build_interference_instr_moves_add_none(ai) ==
    IF Tag(ai.instr) = "Operation" /\ ai.instr[2] = "Equals"
    THEN {}
    ELSE UNION {{{destination, vertex} :
                    vertex \in {v \in ai.live_after : v # destination}} :
                  destination \in write_set(ai.instr)}

\* The edges build_interference_instr adds for one annotated instruction,
\* and whether add_edge looks up a variable var_map does not hold.
build_interference_instr(ai) ==
    IF Tag(ai.instr) = "Operation" /\ ai.instr[2] = "Equals"
    THEN {Edge(ai.instr[4], var) :
            var \in {v \in ai.live_after : v # ai.instr[4] /\ v # ai.instr[3]}}
    ELSE UNION {{Edge(destination, vertex) :
                    vertex \in {v \in ai.live_after : v # destination}} :
                  destination \in write_set(ai.instr)}

build_interference(program) ==
    LET nodes == collect_vars([b \in 1..Len(program.blocks) |->
                                 [i \in 1..Len(program.blocks[b].instrs) |->
                                     program.blocks[b].instrs[i].instr]])
        edges == UNION {UNION {build_interference_instr(program.blocks[b].instrs[i]) :
                                  i \in 1..Len(program.blocks[b].instrs)} :
                           b \in 1..Len(program.blocks)}
    IN  [nodes |-> nodes,
         edges |-> edges,
         panic |-> ~(UNION edges \subseteq nodes)]

neighbors(graph, index) == {w \in graph.nodes : Edge(index, w) \in graph.edges}

\* ------------------------------------------------------------- color_graph
\* color_map is a function from the colored variables to their colors;
\* pqueue is a function from the queued nodes to their priorities.
NewPriority == [saturation |-> 0, move_saturation |-> 0]

\* Priority::cmp: saturation first, then move_saturation.
PriorityLeq(p, q) ==
    \/ p.saturation < q.saturation
    \/ p.saturation = q.saturation /\ p.move_saturation <= q.move_saturation

\* The nodes pop may return: those of greatest priority. Which of several
\* equal ones comes out depends on the order the nodes were pushed in, and
\* node indices follow the iteration order of the HashSet collect_vars
\* returns, which differs from run to run.
PopCandidates(pq) == {n \in DOMAIN pq : \A m \in DOMAIN pq : PriorityLeq(pq[m], pq[n])}

\* find_conflicting_colors returning after the first neighbor it looks at.
find_conflicting_colors_first_neighbor(graph, cmap, index) ==
    LET colored == {w \in graph.nodes : {index, w} \in graph.edges} \cap DOMAIN cmap
    IN  {cmap[adj] : adj \in {a \in colored : \A b \in colored : a <= b}}

find_conflicting_colors(graph, cmap, index) ==
    {cmap[adj] : adj \in neighbors(graph, index) \cap DOMAIN cmap}

find_move_related_colors(move_graph, cmap, var) ==
    {cmap[relative] : relative \in {r \in DOMAIN cmap : move_related(move_graph, var, r)}}

LeastFree(conflicts) == Min({c \in 0..Cardinality(conflicts) : c \notin conflicts})

\* find_least_color counting up from the greatest conflicting color.
find_least_color_above_conflicts(graph, move_graph, cmap, index) ==
    LET conflicts == find_conflicting_colors(graph, cmap, index)
        free == find_move_related_colors(move_graph, cmap, index) \ conflicts
    IN  IF free # {} THEN free
        ELSE {CHOOSE c \in 0..Cardinality(conflicts) + 1 :
                /\ \A d \in conflicts : d < c
                /\ c = 0 \/ (c - 1) \in conflicts}

\* The colors find_least_color may return. The move-related colors are
\* walked in the iteration order of a HashSet<Color>, and the first one
\* that is no conflict is returned: any of them can come first.
find_least_color(graph, move_graph, cmap, index) ==
    LET conflicts == find_conflicting_colors(graph, cmap, index)
        free == find_move_related_colors(move_graph, cmap, index) \ conflicts
    IN  IF free # {} THEN free ELSE {LeastFree(conflicts)}

saturation(graph, cmap, index) == Cardinality(find_conflicting_colors(graph, cmap, index))

update_saturation(pq, graph, cmap, index) ==
    LET adjs == {adj \in neighbors(graph, index) : adj \notin DOMAIN cmap}
    IN  [n \in DOMAIN pq |->
            IF n \in adjs
            THEN [saturation |-> saturation(graph, cmap, n),
                  move_saturation |-> pq[n].move_saturation]
            ELSE pq[n]]

update_move_saturation(pq, graph, move_graph, cmap, index) ==
    LET bs == {b \in graph.nodes : /\ b \notin DOMAIN cmap
                                    /\ move_related(move_graph, index, b)
                                    /\ Edge(index, b) \notin graph.edges}
    IN  [n \in DOMAIN pq |->
            IF n \in bs THEN [pq[n] EXCEPT !.move_saturation = @ + 1] ELSE pq[n]]

\* get_priority(..).expect(..) panics for an uncolored node that is not queued.
update_panics(pq, graph, move_graph, cmap, index) ==
    \E n \in graph.nodes \ DOMAIN cmap :
        /\ n \notin DOMAIN pq
        /\ \/ n \in neighbors(graph, index)
           \/ move_related(move_graph, index, n)

\* One iteration of the loop of color_graph, for the popped node and the
\* color found for it: [pqueue, color_map, panic].
color_graph_step(pq, graph, move_graph, cmap, index, color) ==
    LET popped == [n \in DOMAIN pq \ {index} |-> pq[n]]
        cmap1 == [v \in DOMAIN cmap \cup {index} |-> IF v = index THEN color ELSE cmap[v]]
    IN  IF index \in DOMAIN cmap
        THEN [pqueue |-> popped, color_map |-> cmap, panic |-> FALSE]
        ELSE [pqueue |-> update_move_saturation(
                            update_saturation(popped, graph, cmap1, index),
                            graph, move_graph, cmap1, index),
              color_map |-> cmap1,
              panic |-> update_panics(popped, graph, move_graph, cmap1, index)]

\* ------------------------------------------------- assign_homes: rewriting
Registers ==
    <<"r1", "r2", "r3", "r4", "r5", "r6", "r7", "r8",
      "e1", "e2", "e3", "e4", "e5", "e6", "e7", "e8">>

\* from_color with the stack offsets counted from color 16.
from_color_offset_from_16(color) ==
    IF color < Len(Registers) THEN <<"Register", Registers[color + 1]>>
    ELSE <<"Stack", color - 16>>

\* Location::from_color: colors 0 to 15 are the registers, in order.
from_color(color) ==
    IF color < Len(Registers) THEN <<"Register", Registers[color + 1]>>
    ELSE <<"Stack", color - 15>>

\* Register::to_color.
to_color(register) ==
    CASE register = "r1" -> 0 [] register = "r2" -> 1 [] register = "r3" -> 2
      [] register = "r4" -> 3 [] register = "r5" -> 4 [] register = "r6" -> 5
      [] register = "r7" -> 6 [] register = "r8" -> 7 [] register = "e1" -> 8
      [] register = "e2" -> 9 [] register = "e3" -> 10 [] register = "e4" -> 11
      [] register = "e5" -> 12 [] register = "e6" -> 13 [] register = "e7" -> 14
      [] register = "e8" -> 15

\* The variables an instruction or a jump is rewritten at.
instr_vars(instr) ==
    CASE Tag(instr) = "Set" -> {instr[2]}
      [] Tag(instr) = "Operation" -> {instr[3], instr[4]}
      [] Tag(instr) \in {"Tellraw", "Command"} -> {}
      [] Tag(instr) \in MatchesSets -> {instr[2], instr[4]}
      [] Tag(instr) \in EqualsSets -> {instr[2], instr[3], instr[4]}

jmp_vars(jmp) ==
    CASE Tag(jmp) \in MatchesFunctions -> {jmp[2]}
      [] Tag(jmp) \in EqualsFunctions -> {jmp[2], jmp[3]}
      [] Tag(jmp) = "Function" -> {}

assign_homes_instr(instr, location_map) ==
    CASE Tag(instr) = "Set" -> <<"Set", location_map[instr[2]], instr[3]>>
      [] Tag(instr) = "Operation" ->
            <<"Operation", instr[2], location_map[instr[3]], location_map[instr[4]]>>
      [] Tag(instr) \in {"Tellraw", "Command"} -> instr
      [] Tag(instr) \in MatchesSets ->
            <<Tag(instr), location_map[instr[2]], instr[3], location_map[instr[4]], instr[5]>>
      [] Tag(instr) \in EqualsSets ->
            <<Tag(instr), location_map[instr[2]], location_map[instr[3]],
              location_map[instr[4]], instr[5]>>

assign_homes_jmp(jmp, location_map) ==
    CASE Tag(jmp) \in MatchesFunctions ->
            <<Tag(jmp), location_map[jmp[2]], jmp[3], jmp[4]>>
      [] Tag(jmp) \in EqualsFunctions ->
            <<Tag(jmp), location_map[jmp[2]], location_map[jmp[3]], jmp[4]>>
      [] Tag(jmp) = "Function" -> jmp

\* Indexing location_map with a variable it does not hold panics.
assign_homes_panics(program, location_map) ==
    \/ \E b \in 1..Len(program.blocks) : \E i \in 1..Len(program.blocks[b]) :
          ~(instr_vars(program.blocks[b][i]) \subseteq DOMAIN location_map)
    \/ \E e \in 1..Len(program.edges) :
          ~(jmp_vars(program.edges[e].jmp) \subseteq DOMAIN location_map)

assign_homes_program(program, location_map) ==
    IF assign_homes_panics(program, location_map)
    THEN [blocks |-> <<>>, edges |-> <<>>, tests |-> program.tests, panic |-> TRUE]
    ELSE [blocks |-> [b \in 1..Len(program.blocks) |->
                        [i \in 1..Len(program.blocks[b]) |->
                            assign_homes_instr(program.blocks[b][i], location_map)]],
          edges |-> [e \in 1..Len(program.edges) |->
                        [src |-> program.edges[e].src, dst |-> program.edges[e].dst,
                         jmp |-> assign_homes_jmp(program.edges[e].jmp, location_map)]],
          tests |-> program.tests,
          panic |-> FALSE]

LocationMap(cmap) == [var \in DOMAIN cmap |-> from_color(cmap[var])]

\* -------------------------------------------------------------- insert_jmps
RunSet(location, value) == <<"RunSet", location, value>>

RunFunction(block) == <<"RunFunction", block>>

insert_jmps_instr(instr) ==
    CASE Tag(instr) \in {"Set", "Operation", "Tellraw", "Command"} -> instr
      [] Tag(instr) = "ExecuteIfScoreMatchesSet" ->
            <<"ExecuteIfScoreMatches", instr[2], instr[3], RunSet(instr[4], instr[5])>>
      [] Tag(instr) = "ExecuteUnlessScoreMatchesSet" ->
            <<"ExecuteUnlessScoreMatches", instr[2], instr[3], RunSet(instr[4], instr[5])>>
      [] Tag(instr) = "ExecuteIfScoreEqualsSet" ->
            <<"ExecuteIfScoreEquals", instr[2], instr[3], RunSet(instr[4], instr[5])>>
      [] Tag(instr) = "ExecuteUnlessScoreEqualsSet" ->
            <<"ExecuteUnlessScoreEquals", instr[2], instr[3], RunSet(instr[4], instr[5])>>

insert_jmps_jmp(jmp) ==
    CASE Tag(jmp) = "ExecuteIfScoreMatchesFunction" ->
            <<"ExecuteIfScoreMatches", jmp[2], jmp[3], RunFunction(jmp[4])>>
      [] Tag(jmp) = "ExecuteUnlessScoreMatchesFunction" ->
            <<"ExecuteUnlessScoreMatches", jmp[2], jmp[3], RunFunction(jmp[4])>>
      [] Tag(jmp) = "ExecuteIfScoreEqualsFunction" ->
            <<"ExecuteIfScoreEquals", jmp[2], jmp[3], RunFunction(jmp[4])>>
      [] Tag(jmp) = "ExecuteUnlessScoreEqualsFunction" ->
            <<"ExecuteUnlessScoreEquals", jmp[2], jmp[3], RunFunction(jmp[4])>>
      [] Tag(jmp) = "Function" -> jmp

\* The body, then one jump for every outgoing edge, in the order
\* edges_directed yields them. idx is the 0-based index of the block.
insert_jmps_block(idx, block, edges) ==
    LET out == Outgoing(edges, idx)
    IN  [i \in 1..Len(block) |-> insert_jmps_instr(block[i])]
        \o [i \in 1..Len(out) |-> insert_jmps_jmp(out[i].jmp)]

insert_jmps(program) ==
    [blocks |-> [b \in 1..Len(program.blocks) |->
                    insert_jmps_block(b - 1, program.blocks[b], program.edges)],
     tests |-> program.tests]

\* --------------------------------------------------------- reify_locations
StackItem == <<"StackItem">>

Scratch == <<"Scratch">>

Push(offset) == <<"Push", offset>>

Pop(offset) == <<"Pop", offset>>

\* [run, after]
reify_location_run(run) ==
    CASE Tag(run) = "RunFunction" -> [run |-> run, after |-> <<>>]
      [] Tag(run) = "RunSet" /\ Tag(run[2]) = "Register" -> [run |-> run, after |-> <<>>]
      [] Tag(run) = "RunSet" /\ Tag(run[2]) = "Stack" ->
            [run |-> RunSet(StackItem, run[3]), after |-> <<Push(run[2][2])>>]

\* reify_location_operation without the Pop of the destination's slot.
reify_location_operation_keeps_source_item(op, source, destination) ==
    CASE op = "Equals" /\ source = destination -> <<>>
      [] OTHER ->
        CASE Tag(source) = "Register" /\ Tag(destination) = "Register" ->
                << <<"Operation", op, source, destination>> >>
          [] Tag(source) = "Stack" /\ Tag(destination) = "Register" ->
                <<Pop(source[2]), <<"Operation", op, StackItem, destination>>>>
          [] Tag(source) = "Register" /\ Tag(destination) = "Stack" ->
                <<Pop(destination[2]), <<"Operation", op, source, StackItem>>,
                  Push(destination[2])>>
          [] Tag(source) = "Stack" /\ Tag(destination) = "Stack" ->
                <<Pop(source[2]), <<"Operation", "Equals", StackItem, Scratch>>,
                  <<"Operation", op, Scratch, StackItem>>,
                  Push(destination[2])>>

reify_location_operation(op, source, destination) ==
    CASE op = "Equals" /\ source = destination -> <<>>
      [] OTHER ->
        CASE Tag(source) = "Register" /\ Tag(destination) = "Register" ->
                << <<"Operation", op, source, destination>> >>
          [] Tag(source) = "Stack" /\ Tag(destination) = "Register" ->
                <<Pop(source[2]), <<"Operation", op, StackItem, destination>>>>
          [] Tag(source) = "Register" /\ Tag(destination) = "Stack" ->
                <<Pop(destination[2]), <<"Operation", op, source, StackItem>>,
                  Push(destination[2])>>
          [] Tag(source) = "Stack" /\ Tag(destination) = "Stack" ->
                <<Pop(source[2]), <<"Operation", "Equals", StackItem, Scratch>>,
                  Pop(destination[2]), <<"Operation", op, Scratch, StackItem>>,
                  Push(destination[2])>>

\* The arms of reify_location_instr that are todo!().
reify_location_todo(instr) ==
    Tag(instr) \in {"ExecuteIfScoreEquals", "ExecuteUnlessScoreEquals"}

\* reify_location_instr pushing item as it is for a Set on a stack slot.
reify_location_instr_pushes_stale_item(instr) ==
    CASE Tag(instr) = "Set" /\ Tag(instr[2]) = "Register" -> <<instr>>
      [] Tag(instr) = "Set" /\ Tag(instr[2]) = "Stack" ->
            << Push(instr[2][2]) >>
      [] Tag(instr) = "Operation" -> reify_location_operation(instr[2], instr[3], instr[4])
      [] Tag(instr) \in {"Tellraw", "Command", "Function"} -> <<instr>>
      [] Tag(instr) \in {"ExecuteIfScoreMatches", "ExecuteUnlessScoreMatches"} ->
            LET r == reify_location_run(instr[4])
            IN  IF Tag(instr[2]) = "Register"
                THEN << <<Tag(instr), instr[2], instr[3], r.run>> >> \o r.after
                ELSE <<Pop(instr[2][2]), <<Tag(instr), StackItem, instr[3], r.run>>>>
                     \o r.after

\* The instructions one instruction becomes.
reify_location_instr(instr) ==
    CASE Tag(instr) = "Set" /\ Tag(instr[2]) = "Register" -> <<instr>>
      [] Tag(instr) = "Set" /\ Tag(instr[2]) = "Stack" ->
            << <<"Set", StackItem, instr[3]>>, Push(instr[2][2]) >>
      [] Tag(instr) = "Operation" -> reify_location_operation(instr[2], instr[3], instr[4])
      [] Tag(instr) \in {"Tellraw", "Command", "Function"} -> <<instr>>
      [] Tag(instr) \in {"ExecuteIfScoreMatches", "ExecuteUnlessScoreMatches"} ->
            LET r == reify_location_run(instr[4])
            IN  IF Tag(instr[2]) = "Register"
                THEN << <<Tag(instr), instr[2], instr[3], r.run>> >> \o r.after
                ELSE <<Pop(instr[2][2]), <<Tag(instr), StackItem, instr[3], r.run>>>>
                     \o r.after

reify_location_block(block) ==
    Flatten([i \in 1..Len(block) |-> reify_location_instr(block[i])])

reify_location(program) ==
    IF \E b \in 1..Len(program.blocks) : \E i \in 1..Len(program.blocks[b]) :
          reify_location_todo(program.blocks[b][i])
    THEN [blocks |-> <<>>, tests |-> program.tests, panic |-> TRUE]
    ELSE [blocks |-> [b \in 1..Len(program.blocks) |->
                        reify_location_block(program.blocks[b])],
          tests |-> program.tests,
          panic |-> FALSE]

\* ---------------------------------------------------------------- runtime
\* A line of a function is a tuple whose head names the command. A score
\* holder is <<player, objective>>; the numbered cells of the stack are
\* <<"cell", i, objective>>.
Holder(player, objective) == <<player, objective>>

Cell(i) == <<"cell", i, "stack">>

\* The cells the runtime declares: for i in 0..32.
StackCells == 32

SetLine(holder, value) == <<"set", holder, value>>

OperationLine(destination, op, source) == <<"operation", destination, op, source>>

FunctionLine(name) == <<"function", name>>

ArgumentRegisters == <<"a1", "a2", "a3", "a4", "a5", "a6", "a7", "a8">>

setup_init ==
    << <<"objectives add", "registry">> >>
    \o [i \in 1..Len(Registers) |-> SetLine(Holder(Registers[i], "registry"), 0)]
    \o [i \in 1..Len(ArgumentRegisters) |->
            SetLine(Holder(ArgumentRegisters[i], "registry"), 0)]
    \o << <<"objectives add", "stack">>,
          SetLine(Holder("ptr", "stack"), 0),
          SetLine(Holder("offset", "stack"), 0),
          SetLine(Holder("item", "stack"), 0) >>
    \o [i \in 1..StackCells |-> SetLine(Cell(i - 1), 0)]

StackHead ==
    << OperationLine(Holder("tmp", "stack"), "=", Holder("ptr", "stack")),
       OperationLine(Holder("tmp", "stack"), "-=", Holder("offset", "stack")) >>

setup_push ==
    [name |-> <<"push">>,
     content |-> StackHead \o
        [i \in 1..StackCells |->
            <<"execute", "if", Holder("tmp", "stack"), i - 1,
              OperationLine(Cell(i - 1), "=", Holder("item", "stack"))>>]]

setup_pop ==
    [name |-> <<"pop">>,
     content |-> StackHead \o
        [i \in 1..StackCells |->
            <<"execute", "if", Holder("tmp", "stack"), i - 1,
              OperationLine(Holder("item", "stack"), "=", Cell(i - 1))>>]]

setup_functions == <<setup_push, setup_pop>>

\* --------------------------------------------------------------- emit_text
\* Display for reify_locations::Location.
LocationText(location) ==
    CASE Tag(location) = "Register" -> Holder(location[2], "registry")
      [] Tag(location) = "StackItem" -> Holder("item", "stack")
      [] Tag(location) = "Scratch" -> Holder("scratch", "registry")

\* Display for Op.
OpText(op) ==
    CASE op = "Equals" -> "="
      [] op = "PlusEquals" -> "+="
      [] op = "MinusEquals" -> "-="
      [] op = "TimesEquals" -> "*="
      [] op = "DivideEquals" -> "/="

emit_text_run(run) ==
    CASE Tag(run) = "RunFunction" -> FunctionLine(<<"block", run[2]>>)
      [] Tag(run) = "RunSet" -> SetLine(LocationText(run[2]), run[3])

\* emit_text_instr naming, for a jump, the block after the one it goes to.
emit_text_instr_next_block(instr) ==
    CASE Tag(instr) = "Set" -> <<SetLine(LocationText(instr[2]), instr[3])>>
      [] Tag(instr) = "Operation" ->
            <<OperationLine(LocationText(instr[4]), OpText(instr[2]), LocationText(instr[3]))>>
      [] Tag(instr) = "Push" ->
            <<SetLine(Holder("offset", "stack"), instr[2]), FunctionLine(<<"push">>)>>
      [] Tag(instr) = "Pop" ->
            <<SetLine(Holder("offset", "stack"), instr[2]), FunctionLine(<<"pop">>)>>
      [] Tag(instr) = "Tellraw" -> << <<"tellraw", instr[2]>> >>
      [] Tag(instr) = "Command" -> << <<"command", instr[2]>> >>
      [] Tag(instr) = "ExecuteIfScoreMatches" ->
            << <<"execute", "if", LocationText(instr[2]), instr[3], emit_text_run(instr[4])>> >>
      [] Tag(instr) = "ExecuteUnlessScoreMatches" ->
            << <<"execute", "unless", LocationText(instr[2]), instr[3],
                 emit_text_run(instr[4])>> >>
      [] Tag(instr) = "Function" -> <<FunctionLine(<<"block", instr[2] + 1>>)>>

\* The lines of one instruction.
emit_text_instr(instr) ==
    CASE Tag(instr) = "Set" -> <<SetLine(LocationText(instr[2]), instr[3])>>
      [] Tag(instr) = "Operation" ->
            <<OperationLine(LocationText(instr[4]), OpText(instr[2]), LocationText(instr[3]))>>
      [] Tag(instr) = "Push" ->
            <<SetLine(Holder("offset", "stack"), instr[2]), FunctionLine(<<"push">>)>>
      [] Tag(instr) = "Pop" ->
            <<SetLine(Holder("offset", "stack"), instr[2]), FunctionLine(<<"pop">>)>>
      [] Tag(instr) = "Tellraw" -> << <<"tellraw", instr[2]>> >>
      [] Tag(instr) = "Command" -> << <<"command", instr[2]>> >>
      [] Tag(instr) = "ExecuteIfScoreMatches" ->
            << <<"execute", "if", LocationText(instr[2]), instr[3], emit_text_run(instr[4])>> >>
      [] Tag(instr) = "ExecuteUnlessScoreMatches" ->
            << <<"execute", "unless", LocationText(instr[2]), instr[3],
                 emit_text_run(instr[4])>> >>
      [] Tag(instr) = "Function" -> <<FunctionLine(<<"block", instr[2]>>)>>

emit_text_block(block) == Flatten([i \in 1..Len(block) |-> emit_text_instr(block[i])])

\* emit_text with run calling the tests from the last to the first.
emit_text_last_test_first(program) ==
    LET tests == program.tests
        entries == {tests[i].block : i \in 1..Len(tests)}
        others == SelectSeq([b \in 1..Len(program.blocks) |-> b - 1],
                            LAMBDA idx : idx \notin entries)
        preamble == setup_init
                    \o << <<"tellraw", <<"TAP version 14">>>>,
                          <<"tellraw", <<"1..", Len(tests)>>>>,
                          SetLine(Holder("ptr", "stack"), 10) >>
    IN  setup_functions
        \o [i \in 1..Len(tests) |->
                [name |-> <<"test", i - 1>>,
                 content |-> emit_text_block(program.blocks[tests[i].block + 1])]]
        \o [i \in 1..Len(others) |->
                [name |-> <<"block", others[i]>>,
                 content |-> emit_text_block(program.blocks[others[i] + 1])]]
        \o << [name |-> <<"run">>,
               content |-> preamble
                           \o [i \in 1..Len(tests) |->
                                   FunctionLine(<<"test", Len(tests) - i>>)]
                           \o << <<"tellraw", <<"<EOF>">>>> >>] >>

\* The functions of the datapack, in the order they are pushed: push, pop,
\* test{i} for every test, block{idx} for every block that is no test's
\* entry, and run.
emit_text(program) ==
    LET tests == program.tests
        entries == {tests[i].block : i \in 1..Len(tests)}
        others == SelectSeq([b \in 1..Len(program.blocks) |-> b - 1],
                            LAMBDA idx : idx \notin entries)
        preamble == setup_init
                    \o << <<"tellraw", <<"TAP version 14">>>>,
                          <<"tellraw", <<"1..", Len(tests)>>>>,
                          SetLine(Holder("ptr", "stack"), 10) >>
    IN  setup_functions
        \o [i \in 1..Len(tests) |->
                [name |-> <<"test", i - 1>>,
                 content |-> emit_text_block(program.blocks[tests[i].block + 1])]]
        \o [i \in 1..Len(others) |->
                [name |-> <<"block", others[i]>>,
                 content |-> emit_text_block(program.blocks[others[i] + 1])]]
        \o << [name |-> <<"run">>,
               content |-> preamble
                           \o [i \in 1..Len(tests) |-> FunctionLine(<<"test", i - 1>>)]
                           \o << <<"tellraw", <<"<EOF>">>>> >>] >>

\* ------------------------------------------------------ running a datapack
Players ==
    {Holder(Registers[i], "registry") : i \in 1..Len(Registers)}
    \cup {Holder(ArgumentRegisters[i], "registry") : i \in 1..Len(ArgumentRegisters)}
    \cup {Holder("scratch", "registry")}
    \cup {Holder(p, "stack") : p \in {"ptr", "offset", "item", "tmp"}}
    \cup {Cell(i) : i \in 0..(StackCells - 1)}

\* scoreboard players operation: a division by zero leaves the target as
\* it is. Scores are 32-bit; the literals of StmtPool keep every score of
\* a run far inside that range.
apply_operation(op, destination, source) ==
    CASE op = "=" -> source
      [] op = "+=" -> destination + source
      [] op = "-=" -> destination - source
      [] op = "*=" -> destination * source
      [] op = "/=" -> IF source = 0 THEN destination ELSE destination \div source

\* Whether the condition of an execute line holds.
condition_holds(line, sc) ==
    IF line[2] = "if" THEN sc[line[3]] = line[4] ELSE sc[line[3]] # line[4]

\* The line a line comes down to once its condition is settled; <<"skip">>
\* when the condition fails.
settle(line, sc) ==
    IF Tag(line) = "execute"
    THEN IF condition_holds(line, sc) THEN line[5] ELSE <<"skip">>
    ELSE line

\* The effect of a line that calls no function, on st = [scores, log].
exec_line(line, st) ==
    LET l == settle(line, st.scores)
    IN  CASE Tag(l) = "set" -> [st EXCEPT !.scores[l[2]] = l[3]]
          [] Tag(l) = "operation" ->
                [st EXCEPT !.scores[l[2]] =
                    apply_operation(l[3], st.scores[l[2]], st.scores[l[4]])]
          [] Tag(l) \in {"tellraw", "command"} -> [st EXCEPT !.log = Append(@, l)]
          [] Tag(l) \in {"objectives add", "skip"} -> st

\* The lines of a function that calls none, in order. (The test on the
\* log makes the evaluator settle each line before it goes to the next.)
RECURSIVE exec_lines(_, _)
exec_lines(lines, st) ==
    IF lines = <<>> THEN st
    ELSE LET after == exec_line(Head(lines), st)
         IN  IF Len(after.log) >= Len(st.log) THEN exec_lines(Tail(lines), after)
             ELSE after

\* The content of the function of that name; no lines when there is none
\* (the command fails and nothing runs).
content_of(fns, name) ==
    LET found == {i \in 1..Len(fns) : fns[i].name = name}
    IN  IF found = {} THEN <<>> ELSE fns[Min(found)].content

\* The lines of run before its first call of a function.
RECURSIVE straight_prefix(_)
straight_prefix(lines) ==
    IF lines = <<>> \/ Tag(Head(lines)) \in {"function", "execute"} THEN <<>>
    ELSE <<Head(lines)>> \o straight_prefix(Tail(lines))

\* Frames whose function has no line left return to their caller.
RECURSIVE unwind(_, _)
unwind(fns, fr) ==
    IF fr # <<>> /\ Head(fr).line > Len(content_of(fns, Head(fr).name))
    THEN unwind(fns, Tail(fr))
    ELSE fr

\* One line of the function on top of the call stack (the head of fr):
\* [scores, log, frames]. A call of push or pop runs the helper to its end;
\* any other call enters the function.
step(fns, sc, lg, fr) ==
    LET top == Head(fr)
        line == settle(content_of(fns, top.name)[top.line], sc)
        rest == <<[top EXCEPT !.line = @ + 1]>> \o Tail(fr)
    IN  IF Tag(line) = "function"
        THEN IF line[2] \in {<<"push">>, <<"pop">>}
             THEN LET st == exec_lines(content_of(fns, line[2]), [scores |-> sc, log |-> lg])
                  IN  [scores |-> st.scores, log |-> st.log, frames |-> unwind(fns, rest)]
             ELSE [scores |-> sc, log |-> Append(lg, line),
                   frames |-> unwind(fns, <<[name |-> line[2], line |-> 1]>> \o rest)]
        ELSE LET st == exec_line(line, [scores |-> sc, log |-> lg])
             IN  [scores |-> st.scores, log |-> st.log, frames |-> unwind(fns, rest)]

\* ------------------------------------------------------- the state machine
\* compile (lib.rs) takes the program through the passes in order; the
\* datapack it emits is then run by calling mctest:run.
VARIABLES
    input,               \* the parsed program
    pc,                  \* the pass last completed, "running", "done", or
                         \* "panic in <pass>" when a pass has panicked
    program,             \* the output of the pass last completed
    move_graph,          \* build_move's graph
    annotated,           \* uncover_live's program
    interference_graph,  \* build_interference's graph
    pqueue,              \* color_graph's queue
    color_map,           \* color_graph's map
    functions,           \* the functions emit_text returns
    scores,              \* the scoreboard
    frames,              \* the call stack of the running datapack, top first
    log                  \* what the run printed, ran and called, in order

vars == <<input, pc, program, move_graph, annotated, interference_graph, pqueue,
          color_map, functions, scores, frames, log>>

NoGraph == [nodes |-> {}, edges |-> {}]

Init ==
    /\ input \in Programs
    /\ pc = "parse"
    /\ program = input
    /\ move_graph = NoGraph
    /\ annotated = <<>>
    /\ interference_graph = NoGraph
    /\ pqueue = <<>>
    /\ color_map = <<>>
    /\ functions = <<>>
    /\ scores = [h \in Players |-> 0]
    /\ frames = <<>>
    /\ log = <<>>

Uniquify ==
    /\ pc = "parse"
    /\ LET result == uniquify(program)
       IN  /\ program' = result
           /\ pc' = IF result.panic THEN "panic in uniquify" ELSE "uniquify"
    /\ UNCHANGED <<input, move_graph, annotated, interference_graph, pqueue, color_map,
                   functions, scores, frames, log>>

DesugarAsserts ==
    /\ pc = "uniquify"
    /\ program' = desugar_asserts(program)
    /\ pc' = "desugar_asserts"
    /\ UNCHANGED <<input, move_graph, annotated, interference_graph, pqueue, color_map,
                   functions, scores, frames, log>>

Linearize ==
    /\ pc = "desugar_asserts"
    /\ program' = linearize(program)
    /\ pc' = "linearize"
    /\ UNCHANGED <<input, move_graph, annotated, interference_graph, pqueue, color_map,
                   functions, scores, frames, log>>

SelectInstructions ==
    /\ pc = "linearize"
    /\ LET result == select_instructions(program)
       IN  /\ program' = result
           /\ pc' = IF result.panic THEN "panic in select_instructions" ELSE "select_instructions"
    /\ UNCHANGED <<input, move_graph, annotated, interference_graph, pqueue, color_map,
                   functions, scores, frames, log>>

BuildMove ==
    /\ pc = "select_instructions"
    /\ pc' = "build_move"
    /\ move_graph' = build_move(program)
    /\ UNCHANGED <<input, program, annotated, interference_graph, pqueue, color_map,
                   functions, scores, frames, log>>

UncoverLive ==
    /\ pc = "build_move"
    /\ LET result == uncover_live(program)
       IN  /\ annotated' = result
           /\ pc' = IF result.panic THEN "panic in assign_homes" ELSE "uncover_live"
    /\ UNCHANGED <<input, program, move_graph, interference_graph, pqueue, color_map,
                   functions, scores, frames, log>>

BuildInterference ==
    /\ pc = "uncover_live"
    /\ LET result == build_interference(annotated)
       IN  /\ interference_graph' = result
           /\ pc' = IF result.panic THEN "panic in assign_homes" ELSE "build_interference"
    /\ UNCHANGED <<input, program, move_graph, annotated, pqueue, color_map,
                   functions, scores, frames, log>>

\* color_graph, up to its loop: every node is queued with Priority::new().
ColorGraphStart ==
    /\ pc = "build_interference"
    /\ pc' = "color_graph"
    /\ pqueue' = [n \in interference_graph.nodes |-> NewPriority]
    /\ color_map' = <<>>
    /\ UNCHANGED <<input, program, move_graph, annotated, interference_graph,
                   functions, scores, frames, log>>

\* One iteration of the loop of color_graph.
ColorGraphStep ==
    /\ pc = "color_graph"
    /\ \E index \in PopCandidates(pqueue) :
       \E color \in find_least_color(interference_graph, move_graph, color_map, index) :
          LET result == color_graph_step(pqueue, interference_graph, move_graph,
                                         color_map, index, color)
          IN  /\ pqueue' = result.pqueue
              /\ color_map' = result.color_map
              /\ pc' = IF result.panic THEN "panic in assign_homes" ELSE "color_graph"
    /\ UNCHANGED <<input, program, move_graph, annotated, interference_graph,
                   functions, scores, frames, log>>

\* The loop is left when the queue is empty; the colors become locations
\* and the program is rewritten.
AssignHomes ==
    /\ pc = "color_graph"
    /\ DOMAIN pqueue = {}
    /\ LET result == assign_homes_program(program, LocationMap(color_map))
       IN  /\ program' = result
           /\ pc' = IF result.panic THEN "panic in assign_homes" ELSE "assign_homes"
    /\ UNCHANGED <<input, move_graph, annotated, interference_graph, pqueue, color_map,
                   functions, scores, frames, log>>

InsertJmps ==
    /\ pc = "assign_homes"
    /\ program' = insert_jmps(program)
    /\ pc' = "insert_jmps"
    /\ UNCHANGED <<input, move_graph, annotated, interference_graph, pqueue, color_map,
                   functions, scores, frames, log>>

ReifyLocation ==
    /\ pc = "insert_jmps"
    /\ LET result == reify_location(program)
       IN  /\ program' = result
           /\ pc' = IF result.panic THEN "panic in reify_location" ELSE "reify_location"
    /\ UNCHANGED <<input, move_graph, annotated, interference_graph, pqueue, color_map,
                   functions, scores, frames, log>>

EmitText ==
    /\ pc = "reify_location"
    /\ pc' = "emit_text"
    /\ functions' = emit_text(program)
    /\ UNCHANGED <<input, program, move_graph, annotated, interference_graph, pqueue,
                   color_map, scores, frames, log>>

\* function mctest:run, up to the call of the first test.
Run ==
    /\ pc = "emit_text"
    /\ LET content == content_of(functions, <<"run">>)
           prefix == straight_prefix(content)
           st == exec_lines(prefix, [scores |-> scores, log |-> log])
       IN  /\ scores' = st.scores
           /\ log' = st.log
           /\ frames' = <<[name |-> <<"run">>, line |-> Len(prefix) + 1]>>
    /\ pc' = "running"
    /\ UNCHANGED <<input, program, move_graph, annotated, interference_graph, pqueue,
                   color_map, functions>>

\* The next line of the function on top of the call stack.
Step ==
    /\ pc = "running"
    /\ LET result == step(functions, scores, log, frames)
       IN  /\ scores' = result.scores
           /\ log' = result.log
           /\ frames' = result.frames
           /\ pc' = IF result.frames = <<>> THEN "done" ELSE "running"
    /\ UNCHANGED <<input, program, move_graph, annotated, interference_graph, pqueue,
                   color_map, functions>>

Next ==
    \/ Uniquify
    \/ DesugarAsserts
    \/ Linearize
    \/ SelectInstructions
    \/ BuildMove
    \/ UncoverLive
    \/ BuildInterference
    \/ ColorGraphStart
    \/ ColorGraphStep
    \/ AssignHomes
    \/ InsertJmps
    \/ ReifyLocation
    \/ EmitText
    \/ Run
    \/ Step

Spec == Init /\ [][Next]_vars

\* ------------------------------------------------- the meaning of a source
\* What a test means, read off the source: expressions evaluate in the
\* environment of the Lets before them, true is 1 and false is 0, and a
\* test stops at its first failing assertion.
RECURSIVE SourceValue(_, _)
SourceValue(env, expr) ==
    CASE Tag(expr) = "LitInt" -> expr[2]
      [] Tag(expr) = "LitBool" -> BoolInt(expr[2])
      [] Tag(expr) = "Variable" -> env[expr[2]]
      [] Tag(expr) = "Plus" -> SourceValue(env, expr[2]) + SourceValue(env, expr[3])
      [] Tag(expr) = "Minus" -> SourceValue(env, expr[2]) - SourceValue(env, expr[3])
      [] Tag(expr) = "Times" -> SourceValue(env, expr[2]) * SourceValue(env, expr[3])
      [] Tag(expr) = "Divide" -> SourceValue(env, expr[2]) \div SourceValue(env, expr[3])
      [] Tag(expr) = "Eq" -> BoolInt(SourceValue(env, expr[2]) = SourceValue(env, expr[3]))
      [] Tag(expr) = "If" ->
            IF SourceValue(env, expr[2]) = 1 THEN SourceValue(env, expr[3])
            ELSE SourceValue(env, expr[4])

SourceStmt(st, stmt) ==
    IF st.failed THEN st
    ELSE CASE Tag(stmt) = "Let" ->
                [st EXCEPT !.env = [n \in DOMAIN st.env \cup {stmt[2]} |->
                                        IF n = stmt[2] THEN SourceValue(st.env, stmt[3])
                                        ELSE st.env[n]]]
           [] Tag(stmt) = "Command" -> [st EXCEPT !.commands = Append(@, stmt[2])]
           [] Tag(stmt) = "Assert" ->
                [st EXCEPT !.failed = SourceValue(st.env, stmt[2]) # 1]
           [] Tag(stmt) = "AssertEq" ->
                [st EXCEPT !.failed =
                    SourceValue(st.env, stmt[2]) # SourceValue(st.env, stmt[3])]

RECURSIVE SourceRun(_, _)
SourceRun(st, stmts) ==
    IF stmts = <<>> THEN st ELSE SourceRun(SourceStmt(st, Head(stmts)), Tail(stmts))

SourceTest(def) ==
    SourceRun([env |-> [n \in {} |-> 0], failed |-> FALSE, commands |-> <<>>], def.stmts)

\* ------------------------------------------------------- reading the log
IsTestPoint(entry, name) ==
    /\ Tag(entry) = "tellraw"
    /\ entry[2][1] \in {"ok - ", "not ok - "}
    /\ entry[2][2] = name

TestPoints(name) == SelectSeq(log, LAMBDA entry : IsTestPoint(entry, name))

IsCall(entry, name) == Tag(entry) = "function" /\ entry[2] = name

Calls(name) == Len(SelectSeq(log, LAMBDA entry : IsCall(entry, name)))

\* What the log holds from the call of the i-th test to the call of the
\* next one (to the end, for the last test).
TestSegment(i) ==
    LET first == Min({k \in 1..Len(log) : IsCall(log[k], <<"test", i - 1>>)})
        later == {k \in 1..Len(log) : IsCall(log[k], <<"test", i>>)}
    IN  SubSeq(log, first, IF later = {} THEN Len(log) ELSE Min(later) - 1)

CommandsOf(entries) ==
    LET cmds == SelectSeq(entries, LAMBDA entry : Tag(entry) = "command")
    IN  [k \in 1..Len(cmds) |-> cmds[k][2]]

\* ------------------------------------------------------------------ claims
\* C1. When a compiled program has been run, every test has printed
\* exactly one test-point line: "ok - <name>" if all the assertions of the
\* test hold in the source, "not ok - <name>" otherwise.
OneTestPointPerTest ==
    pc = "done" =>
        \A i \in 1..Len(input) :
            TestPoints(input[i].name) =
                << <<"tellraw",
                     <<IF SourceTest(input[i]).failed THEN "not ok - " ELSE "ok - ",
                       input[i].name>>>> >>

\* C2. When a compiled program has been run, the commands a test ran are
\* the commands of its source before its first failing assertion, each
\* once and in order, and a test with a failing assertion has printed no
\* "ok" line and no second "not ok" line.
SourceOrderUpToFailure ==
    pc = "done" =>
        \A i \in 1..Len(input) :
            LET meant == SourceTest(input[i])
            IN  /\ CommandsOf(TestSegment(i)) = meant.commands
                /\ meant.failed =>
                      /\ \A k \in 1..Len(log) :
                            ~(IsTestPoint(log[k], input[i].name) /\ log[k][2][1] = "ok - ")
                      /\ Len(TestPoints(input[i].name)) <= 1

\* The function a line calls when its guard lets it, <<>> when it calls none.
CallOf(line) ==
    CASE Tag(line) = "function" -> line[2]
      [] Tag(line) = "execute" /\ Tag(line[5]) = "function" -> line[5][2]
      [] OTHER -> <<>>

Callees(name) ==
    LET content == content_of(functions, name)
    IN  {CallOf(content[k]) : k \in 1..Len(content)} \ {<<>>, <<"push">>, <<"pop">>}

RECURSIVE CalledFrom(_)
CalledFrom(name) == {name} \cup UNION {CalledFrom(callee) : callee \in Callees(name)}

\* The conditional branches of the emitted code: a function holding a call
\* guarded by "if c" and a call guarded by "unless c" for the same c. The
\* join is the first block both branches lead to.
ConditionalBranches ==
    {br \in [name : {functions[k].name : k \in 1..Len(functions)},
             thn : {functions[k].name : k \in 1..Len(functions)},
             els : {functions[k].name : k \in 1..Len(functions)}] :
        LET content == content_of(functions, br.name)
        IN  \E i, j \in 1..Len(content) :
                /\ Tag(content[i]) = "execute" /\ Tag(content[j]) = "execute"
                /\ content[i][2] = "if" /\ content[j][2] = "unless"
                /\ content[i][3] = content[j][3] /\ content[i][4] = content[j][4]
                /\ content[i][5] = FunctionLine(br.thn)
                /\ content[j][5] = FunctionLine(br.els)}

JoinOf(br) ==
    LET common == CalledFrom(br.thn) \cap CalledFrom(br.els)
    IN  CHOOSE j \in common : \A k \in common : j[2] <= k[2]

\* C3. When a compiled program has been run, every conditional branch has
\* taken exactly one of its two guarded jumps each time its block ran: the
\* then-branch and the else-branch have together been entered as often as
\* the block, and so has the join block.
ExactlyOneBranchFires ==
    pc = "done" =>
        \A br \in ConditionalBranches :
            /\ Calls(br.thn) + Calls(br.els) = Calls(br.name)
            /\ Calls(JoinOf(br)) = Calls(br.name)

\* ------------------------------------------------------------ the allocator
AnnotatedInstrs ==
    IF annotated = <<>> THEN {}
    ELSE UNION {Range(annotated.blocks[b].instrs) : b \in 1..Len(annotated.blocks)}

InterferenceBuilt ==
    pc \in {"build_interference", "color_graph", "assign_homes", "insert_jmps",
            "reify_location", "emit_text", "running", "done", "panic in reify_location"}

\* C4. No two variables joined by an edge of the interference graph have
\* the same color, at any step of color_graph and in its result.
ColorValidity ==
    \A e \in interference_graph.edges :
        \A u, v \in e \cap DOMAIN color_map :
            u # v => color_map[u] # color_map[v]

\* color_graph has colored both ends of an edge.
ColoredAnEdge ==
    /\ pc = "color_graph"
    /\ \E e \in interference_graph.edges : Cardinality(e \cap DOMAIN color_map) = 2

IsMove(instr) == Tag(instr) = "Operation" /\ instr[2] = "Equals"

\* C5, as stated. Two distinct variables live after an instruction are
\* joined by an edge of the interference graph, unless that instruction is
\* a move between exactly those two.
InterferenceSoundness ==
    InterferenceBuilt =>
        \A ai \in AnnotatedInstrs :
            \A u, v \in ai.live_after :
                (u # v /\ ~(IsMove(ai.instr) /\ {u, v} = {ai.instr[3], ai.instr[4]}))
                    => {u, v} \in interference_graph.edges

\* C5, amended. A variable an instruction writes is joined by an edge to
\* every other variable live after the instruction, unless the instruction
\* is a move and that variable is its source.
WrittenInterferesWithLive ==
    InterferenceBuilt =>
        \A ai \in AnnotatedInstrs :
            \A d \in (IF Tag(ai.instr) \in {"Tellraw", "Command"} THEN {}
                      ELSE IF Tag(ai.instr) = "Set" THEN {ai.instr[2]}
                      ELSE {ai.instr[4]}) :
                \A v \in ai.live_after \ {d} :
                    ~(IsMove(ai.instr) /\ v = ai.instr[3])
                        => {d, v} \in interference_graph.edges

\* The graph is built for a program in which a move leaves its source live
\* next to a third variable, and a Set leaves another variable live.
InterferenceOfMoveAndSet ==
    /\ InterferenceBuilt
    /\ \E ai \in AnnotatedInstrs :
          /\ IsMove(ai.instr)
          /\ ai.instr[3] \in ai.live_after
          /\ ai.live_after \ {ai.instr[3], ai.instr[4]} # {}
    /\ \E ai \in AnnotatedInstrs :
          Tag(ai.instr) = "Set" /\ ai.live_after \ {ai.instr[2]} # {}

\* The write and read sets the claim gives for C6.
WriteOf(instr) ==
    CASE Tag(instr) = "Set" -> {instr[2]}
      [] Tag(instr) = "Operation" -> {instr[4]}
      [] Tag(instr) \in MatchesSets \cup EqualsSets -> {instr[4]}
      [] OTHER -> {}

ReadOf(instr) ==
    CASE Tag(instr) = "Operation" /\ instr[2] = "Equals" -> {instr[3]}
      [] Tag(instr) = "Operation" /\ instr[2] # "Equals" -> {instr[3], instr[4]}
      [] Tag(instr) \in MatchesSets -> {instr[2]}
      [] Tag(instr) \in EqualsSets -> {instr[2], instr[3]}
      [] OTHER -> {}

\* The live set before the k-th annotated instruction of a block: the
\* instructions are held last first, so it is the live set after the
\* (k+1)-th, and the block's live_before for the last one held.
LiveBefore(block, k) ==
    IF k < Len(block.instrs) THEN block.instrs[k + 1].live_after ELSE block.live_before

\* C6. For every instruction k of every block uncover_live has annotated,
\* the live set before k is (live_after(k) minus write(k)) union read(k).
WriteReadConsistency ==
    annotated # <<>> =>
        \A b \in 1..Len(annotated.blocks) :
            \A k \in 1..Len(annotated.blocks[b].instrs) :
                LET ai == annotated.blocks[b].instrs[k]
                IN  LiveBefore(annotated.blocks[b], k) =
                        (ai.live_after \ WriteOf(ai.instr)) \cup ReadOf(ai.instr)

\* uncover_live has annotated an arithmetic Operation whose destination is
\* live before it and a Set whose variable is live after it.
LiveAcrossOperationAndSet ==
    /\ pc = "uncover_live"
    /\ \E ai \in AnnotatedInstrs :
          Tag(ai.instr) = "Operation" /\ ai.instr[2] # "Equals" /\ ai.live_after # {}
    /\ \E ai \in AnnotatedInstrs : Tag(ai.instr) = "Set" /\ ai.instr[2] \in ai.live_after

\* The variables that occur in the instructions and in the jump guards of
\* the program assign_homes is given.
OccurringVars ==
    UNION {UNION {instr_vars(program.blocks[b][i]) : i \in 1..Len(program.blocks[b])} :
              b \in 1..Len(program.blocks)}
    \cup UNION {jmp_vars(program.edges[e].jmp) : e \in 1..Len(program.edges)}

GuardVars == UNION {jmp_vars(program.edges[e].jmp) : e \in 1..Len(program.edges)}

\* C7. assign_homes never panics for a program uniquify has accepted: when
\* the loop of color_graph is over every variable that occurs in an
\* instruction or in a jump guard has a color, so that every lookup in the
\* location map succeeds.
AllocatorNeverFails ==
    /\ pc # "panic in assign_homes"
    /\ (pc = "color_graph" /\ DOMAIN pqueue = {}) => OccurringVars \subseteq DOMAIN color_map

\* assign_homes has rewritten a program that has variables in jump guards.
AssignedHomesWithGuards ==
    /\ pc = "assign_homes"
    /\ Cardinality(DOMAIN color_map) >= 2
    /\ \E e \in 1..Len(program.edges) : Tag(program.edges[e].jmp) \in MatchesFunctions

\* C8. When the loop of color_graph colors a node, the node receives the
\* least color of its colored move-related variables that is no color of a
\* colored neighbor, if there is one, and else the least color that is no
\* color of a colored neighbor.
MoveBias ==
    [][(pc = "color_graph" /\ DOMAIN color_map' # DOMAIN color_map) =>
          LET n == CHOOSE v \in DOMAIN color_map' : v \notin DOMAIN color_map
              conflicts == {color_map[w] : w \in {x \in DOMAIN color_map :
                                                    {n, x} \in interference_graph.edges}}
              preferred == {color_map[w] : w \in {x \in DOMAIN color_map :
                                                    {n, x} \in move_graph.edges}}
          IN  color_map'[n] =
                IF preferred \ conflicts # {} THEN Min(preferred \ conflicts)
                ELSE Min({c \in 0..Cardinality(conflicts) : c \notin conflicts})]_vars

\* color_graph run with every choice settled the way the specification
\* settles it: of the nodes of greatest priority the one of least id is
\* popped, and of the preferred colors the least is taken.
RECURSIVE ColorsByNodeId(_, _)
ColorsByNodeId(pq, cmap) ==
    IF DOMAIN pq = {} THEN cmap
    ELSE LET index == Min(PopCandidates(pq))
             color == Min(find_least_color(interference_graph, move_graph, cmap, index))
             result == color_graph_step(pq, interference_graph, move_graph, cmap,
                                        index, color)
         IN  ColorsByNodeId(result.pqueue, result.color_map)

\* C9. The functions emitted for a source are the same in every run: they
\* are the ones the pipeline emits when ties in the queue go to the least
\* node id and the least preferred color is taken, whatever order the
\* allocator's sets and queue yielded in this run.
EmitDeterminism ==
    pc = "emit_text" =>
        LET selected == select_instructions(linearize(desugar_asserts(uniquify(input))))
            colors == ColorsByNodeId([n \in interference_graph.nodes |-> NewPriority], <<>>)
        IN  functions =
                emit_text(reify_location(insert_jmps(
                    assign_homes_program(selected, LocationMap(colors)))))

\* ------------------------------------------------------------ spilled code
\* The code of a spilled variable, run on its own: the datapack of the
\* empty program supplies push, pop and the preamble of run, and each step
\* runs the lines emitted for one instruction on a stack location. The log
\* holds the instructions run: <<"Push", offset, value>> and
\* <<"Pop", offset, item>> with the item the pop left.
StackOffsets == (1..2) \cup ((MaxOffset - 1)..MaxOffset)

StackValues == {1, 2}

\* The lines of a block in which only push and pop are called.
RECURSIVE exec_block(_, _, _)
exec_block(fns, lines, st) ==
    IF lines = <<>> THEN st
    ELSE LET line == Head(lines)
             after == IF Tag(line) = "function"
                      THEN exec_lines(content_of(fns, line[2]), st)
                      ELSE exec_line(line, st)
         IN  IF Len(after.log) >= Len(st.log) THEN exec_block(fns, Tail(lines), after)
             ELSE after

InitStack ==
    /\ input = <<>>
    /\ pc = "stack"
    /\ program = [blocks |-> <<>>, tests |-> <<>>]
    /\ move_graph = NoGraph
    /\ annotated = <<>>
    /\ interference_graph = NoGraph
    /\ pqueue = <<>>
    /\ color_map = <<>>
    /\ functions = emit_text([blocks |-> <<>>, tests |-> <<>>])
    /\ scores = exec_lines(straight_prefix(content_of(functions, <<"run">>)),
                           [scores |-> [h \in Players |-> 0], log |-> <<>>]).scores
    /\ frames = <<>>
    /\ log = <<>>

\* Set on a stack location: the value goes to item and is pushed.
StackPush ==
    /\ pc = "stack"
    /\ Len(log) < MaxStackOps
    /\ \E offset \in StackOffsets, value \in StackValues :
          LET instrs == reify_location_instr(<<"Set", <<"Stack", offset>>, value>>)
              st == exec_block(functions, emit_text_block(instrs),
                               [scores |-> scores, log |-> <<>>])
          IN  /\ scores' = st.scores
              /\ log' = Append(log, <<"Push", offset, value>>)
    /\ UNCHANGED <<input, pc, program, move_graph, annotated, interference_graph, pqueue,
                   color_map, functions, frames>>

\* The Pop that comes before every read of a stack location.
StackPop ==
    /\ pc = "stack"
    /\ Len(log) < MaxStackOps
    /\ \E offset \in StackOffsets :
          LET st == exec_block(functions, emit_text_instr(Pop(offset)),
                               [scores |-> scores, log |-> <<>>])
          IN  /\ scores' = st.scores
              /\ log' = Append(log, <<"Pop", offset, st.scores[Holder("item", "stack")]>>)
    /\ UNCHANGED <<input, pc, program, move_graph, annotated, interference_graph, pqueue,
                   color_map, functions, frames>>

NextStack == StackPush \/ StackPop

SpecStack == InitStack /\ [][NextStack]_vars

\* C10. With ptr at 10, a Pop of an offset leaves in item the value of the
\* latest Push to that offset, whatever was pushed to other offsets in
\* between.
PopReturnsPushed ==
    pc = "stack" =>
        \A k \in 1..Len(log) :
            LET pushes == {j \in 1..(k - 1) : log[j][1] = "Push" /\ log[j][2] = log[k][2]}
            IN  (log[k][1] = "Pop" /\ pushes # {}) =>
                    log[k][3] = log[CHOOSE j \in pushes : \A i \in pushes : i <= j][3]

\* ------------------------------------------------ assertions on variables
\* The tests of the input that hold an AssertEq whose two operands are
\* both variables.
TestsComparingVariables ==
    {i \in 1..Len(input) :
        \E k \in 1..Len(input[i].stmts) :
            /\ Tag(input[i].stmts[k]) = "AssertEq"
            /\ Tag(input[i].stmts[k][2]) = "Variable"
            /\ Tag(input[i].stmts[k][3]) = "Variable"}

\* C11. A program uniquify has accepted, with an AssertEq of two variables
\* in it, compiles: no later pass panics. Once run, a test with such an
\* assertion has printed "ok - <name>" if its assertions hold in the source
\* (the two values are equal) and "not ok - <name>" if they do not.
AssertEqOfVariables ==
    TestsComparingVariables # {} =>
        /\ pc \notin {"panic in select_instructions", "panic in assign_homes",
                      "panic in reify_location"}
        /\ pc = "done" =>
              \A i \in TestsComparingVariables :
                  \E k \in 1..Len(log) :
                      log[k] = <<"tellraw",
                                 <<IF SourceTest(input[i]).failed THEN "not ok - "
                                   ELSE "ok - ", input[i].name>>>>

\* ------------------------------------------------------- uniquify's output
\* The ids an expression of uniquify's output refers to.
RECURSIVE References(_)
References(expr) ==
    CASE Tag(expr) = "Variable" -> {expr[2]}
      [] Tag(expr) \in {"LitBool", "LitInt"} -> {}
      [] Tag(expr) = "If" ->
            References(expr[2]) \cup References(expr[3]) \cup References(expr[4])
      [] OTHER -> References(expr[2]) \cup References(expr[3])

ReferencesOfStmt(stmt) ==
    CASE Tag(stmt) = "Let" -> References(stmt[3])
      [] Tag(stmt) = "Assert" -> References(stmt[2])
      [] Tag(stmt) = "AssertEq" -> References(stmt[2]) \cup References(stmt[3])
      [] OTHER -> {}

\* The Lets of a program, as <<test, statement>> positions.
LetPositions(defs) ==
    {pos \in UNION {{<<i, k>> : k \in 1..Len(defs[i].stmts)} : i \in 1..Len(defs)} :
        Tag(defs[pos[1]].stmts[pos[2]]) = "Let"}

\* C12. After uniquify no two Lets of the program have the same id, in one
\* test or in two, and every variable reference is the id of a Let in an
\* earlier statement of the same test.
UniqueBindingIds ==
    pc = "uniquify" =>
        /\ \A p, q \in LetPositions(program.defs) :
              p # q => program.defs[p[1]].stmts[p[2]][2] # program.defs[q[1]].stmts[q[2]][2]
        /\ \A i \in 1..Len(program.defs) :
              \A k \in 1..Len(program.defs[i].stmts) :
                  \A ref \in ReferencesOfStmt(program.defs[i].stmts[k]) :
                      \E m \in 1..(k - 1) :
                          /\ Tag(program.defs[i].stmts[m]) = "Let"
                          /\ program.defs[i].stmts[m][2] = ref

\* uniquify has run on a program of two tests that both bind, shadow and
\* use a name.
UniquifiedTwoTests ==
    /\ pc = "uniquify"
    /\ Len(program.defs) >= 2
    /\ \A i \in 1..2 :
          /\ Cardinality({p \in LetPositions(program.defs) : p[1] = i}) >= 2
          /\ \E k \in 1..Len(program.defs[i].stmts) :
                ReferencesOfStmt(program.defs[i].stmts[k]) # {}

\* The statements of test i before statement k that bind the name.
LetsBefore(i, k, name) ==
    {m \in 1..(k - 1) : Tag(input[i].stmts[m]) = "Let" /\ input[i].stmts[m][2] = name}

\* The id uniquify gave to the latest Let of the name before statement k of
\* test i (there is one whenever uniquify has accepted the program).
BoundId(i, k, name) ==
    LET m == CHOOSE m \in LetsBefore(i, k, name) : \A n \in LetsBefore(i, k, name) : n <= m
    IN  program.defs[i].stmts[m][2]

\* Whether `out` is the source expression `src` of statement k of test i
\* with every name replaced by the id of its latest binding.
RECURSIVE Resolved(_, _, _, _)
Resolved(i, k, src, out) ==
    /\ Tag(out) = Tag(src)
    /\ CASE Tag(src) = "Variable" ->
                LetsBefore(i, k, src[2]) # {} /\ out[2] = BoundId(i, k, src[2])
         [] Tag(src) \in {"LitBool", "LitInt"} -> out = src
         [] Tag(src) = "If" ->
                /\ Resolved(i, k, src[2], out[2])
                /\ Resolved(i, k, src[3], out[3])
                /\ Resolved(i, k, src[4], out[4])
         [] OTHER -> Resolved(i, k, src[2], out[2]) /\ Resolved(i, k, src[3], out[3])

\* C13. After uniquify every name of a statement, the right-hand side of a
\* Let included, stands for the id of the latest Let of that name in an
\* earlier statement of the same test, and a Let of a name that is already
\* bound has an id other than the ids of the earlier Lets of that name.
LexicalShadowing ==
    pc = "uniquify" =>
        \A i \in 1..Len(input) :
            /\ Len(program.defs[i].stmts) = Len(input[i].stmts)
            /\ \A k \in 1..Len(input[i].stmts) :
                  LET src == input[i].stmts[k]
                      out == program.defs[i].stmts[k]
                  IN  /\ Tag(out) = Tag(src)
                      /\ Tag(src) = "Assert" => Resolved(i, k, src[2], out[2])
                      /\ Tag(src) = "AssertEq" =>
                            Resolved(i, k, src[2], out[2]) /\ Resolved(i, k, src[3], out[3])
                      /\ Tag(src) = "Let" =>
                            /\ Resolved(i, k, src[3], out[3])
                            /\ \A m \in LetsBefore(i, k, src[2]) :
                                  program.defs[i].stmts[m][2] # out[2]

\* uniquify has run on a test in which a Let shadows a name its own
\* right-hand side uses, and a later statement uses the name again.
UniquifiedShadowedName ==
    /\ pc = "uniquify"
    /\ \E i \in 1..Len(input) : \E k, n \in 1..Len(input[i].stmts) :
          /\ Tag(input[i].stmts[k]) = "Let"
          /\ LetsBefore(i, k, input[i].stmts[k][2]) # {}
          /\ input[i].stmts[k][2] \in Lookups(input[i].stmts[k][3])
          /\ n > k
          /\ \E e \in Range(StmtExprs(input[i].stmts[n])) :
                input[i].stmts[k][2] \in Lookups(e)

\* ------------------------------------------------------ linearize's output
IsAtom(x) == Tag(x) \in {"LitUnit", "LitBool", "LitInt", "Var"}

\* The assignments of a Binary or a Cmp in linearize's output, as
\* <<block, statement>> positions (blocks counted from 1 here).
OperationPositions ==
    {pos \in UNION {{<<b, k>> : k \in 1..Len(program.blocks[b])} :
                       b \in 1..Len(program.blocks)} :
        /\ Tag(program.blocks[pos[1]][pos[2]]) = "Assign"
        /\ Tag(program.blocks[pos[1]][pos[2]][3]) \in {"Binary", "Cmp"}}

\* The positions at which an operand is assigned as the result of a Binary
\* or a Cmp; none if the operand is a literal, a Let's variable or the
\* result of an If.
AssignedAt(atom) ==
    {pos \in OperationPositions :
        Tag(atom) = "Var" /\ program.blocks[pos[1]][pos[2]][2] = atom[2]}

\* The number of ids uniquify issued: one for every Let.
IssuedByUniquify == Cardinality(LetPositions(uniquify(input).defs))

\* C14. After linearize the operands of every Binary, of every Cmp and of
\* every jump condition are atoms. The result of a Binary or a Cmp is a
\* temporary no Let and no other statement's Binary or Cmp has; an operand
\* that is such a temporary is assigned in the same block before the
\* statement that uses it, and if both operands are, the left one is
\* assigned before the right one.
ThreeAddressForm ==
    pc = "linearize" =>
        /\ \A pos \in OperationPositions :
              LET stmt == program.blocks[pos[1]][pos[2]]
                  left == stmt[3][3]
                  right == stmt[3][4]
              IN  /\ IsAtom(left) /\ IsAtom(right)
                  /\ stmt[2] >= IssuedByUniquify
                  /\ \A other \in OperationPositions :
                        other # pos =>
                            program.blocks[other[1]][other[2]][2] # stmt[2]
                  /\ \A at \in AssignedAt(left) \cup AssignedAt(right) :
                        at[1] = pos[1] /\ at[2] < pos[2]
                  /\ \A l \in AssignedAt(left) : \A r \in AssignedAt(right) : l[2] < r[2]
        /\ \A b \in 1..Len(program.blocks) : \A k \in 1..Len(program.blocks[b]) :
              (Tag(program.blocks[b][k]) = "Assign"
                  /\ Tag(program.blocks[b][k][3]) = "Atom") => IsAtom(program.blocks[b][k][3][2])
        /\ \A e \in 1..Len(program.edges) :
              LET jmp == program.edges[e].jmp
              IN  Tag(jmp) \in {"If", "Unless"} =>
                      IF Tag(jmp[2]) = "Cmp" THEN IsAtom(jmp[2][3]) /\ IsAtom(jmp[2][4])
                      ELSE IsAtom(jmp[2][2])

\* linearize has lowered a Cmp over a Binary whose two operands are both
\* results of a Binary.
LinearizedNestedOperands ==
    /\ pc = "linearize"
    /\ \E pos, top \in OperationPositions :
          /\ Tag(program.blocks[pos[1]][pos[2]][3]) = "Binary"
          /\ AssignedAt(program.blocks[pos[1]][pos[2]][3][3]) # {}
          /\ AssignedAt(program.blocks[pos[1]][pos[2]][3][4]) # {}
          /\ Tag(program.blocks[top[1]][top[2]][3]) = "Cmp"
          /\ pos \in AssignedAt(program.blocks[top[1]][top[2]][3][3])

\* The edges that leave the block of index idx, as a set.
EdgesFrom(idx) == {e \in Range(program.edges) : e.src = idx}

\* The blocks that can be reached from the block of index idx, itself
\* included.
RECURSIVE Reach(_)
Reach(idx) == {idx} \cup UNION {Reach(e.dst) : e \in EdgesFrom(idx)}

\* The variable the last statement of a block assigns an atom to, as a set:
\* empty if the block does not end that way.
BranchResult(idx) ==
    LET stmts == program.blocks[idx + 1]
    IN  IF stmts # <<>> /\ Tag(stmts[Len(stmts)]) = "Assign"
           /\ Tag(stmts[Len(stmts)][3]) = "Atom"
        THEN {stmts[Len(stmts)][2]} ELSE {}

\* Whether the two branches that start at thn and els end in blocks that
\* assign the same variable last and go on to one block, each by an
\* Unconditional edge.
Joined(thn, els) ==
    \E t \in Reach(thn), e \in Reach(els) :
        /\ BranchResult(t) # {} /\ BranchResult(t) = BranchResult(e)
        /\ \E et \in EdgesFrom(t), ee \in EdgesFrom(e) :
              /\ et.jmp = <<"Unconditional">> /\ ee.jmp = <<"Unconditional">>
              /\ et.dst = ee.dst

\* C15. After linearize a block has no outgoing edge, or one and it is
\* Unconditional, or two, one labelled If(c) and one Unless(c) for the same
\* c. The two branches of a branching block end by assigning the same
\* variable and enter one join block, each through an Unconditional edge.
CfgWellFormed ==
    pc = "linearize" =>
        \A idx \in 0..(Len(program.blocks) - 1) :
            LET out == SelectSeq(program.edges, LAMBDA e : e.src = idx)
            IN  \/ Len(out) = 0
                \/ Len(out) = 1 /\ out[1].jmp = <<"Unconditional">>
                \/ /\ Len(out) = 2
                   /\ \E i, j \in 1..2 :
                         /\ Tag(out[i].jmp) = "If" /\ Tag(out[j].jmp) = "Unless"
                         /\ out[i].jmp[2] = out[j].jmp[2]
                         /\ out[i].dst # out[j].dst
                         /\ Joined(out[i].dst, out[j].dst)

\* linearize has built a branch inside the then-branch of another one, and
\* a branch on a comparison.
LinearizedNestedBranches ==
    /\ pc = "linearize"
    /\ \E e, f \in Range(program.edges) :
          /\ Tag(e.jmp) = "If" /\ Tag(f.jmp) = "If"
          /\ f.src \in Reach(e.dst)
    /\ \E e \in Range(program.edges) : Tag(e.jmp) = "If" /\ Tag(e.jmp[2]) = "Cmp"

\* ------------------------------------------------- colors and locations
\* from_color and to_color, run on their own: input holds two colors,
\* program the locations from_color gives them, and log the color to_color
\* gives back for the first location when it is a register.
InitColor ==
    /\ input \in (0..MaxColor) \X (0..MaxColor)
    /\ pc = "colors"
    /\ program = <<>>
    /\ move_graph = NoGraph
    /\ annotated = <<>>
    /\ interference_graph = NoGraph
    /\ pqueue = <<>>
    /\ color_map = <<>>
    /\ functions = <<>>
    /\ scores = <<>>
    /\ frames = <<>>
    /\ log = <<>>

FromColor ==
    /\ pc = "colors"
    /\ program' = <<from_color(input[1]), from_color(input[2])>>
    /\ pc' = "locations"
    /\ UNCHANGED <<input, move_graph, annotated, interference_graph, pqueue, color_map,
                   functions, scores, frames, log>>

ToColor ==
    /\ pc = "locations"
    /\ Tag(program[1]) = "Register"
    /\ log' = <<to_color(program[1][2])>>
    /\ pc' = "colors again"
    /\ UNCHANGED <<input, program, move_graph, annotated, interference_graph, pqueue,
                   color_map, functions, scores, frames>>

NextColor == FromColor \/ ToColor

SpecColor == InitColor /\ [][NextColor]_vars

\* The registers in the order the claim gives them: R1..R8, then E1..E8.
RegistersInOrder ==
    <<"r1", "r2", "r3", "r4", "r5", "r6", "r7", "r8",
      "e1", "e2", "e3", "e4", "e5", "e6", "e7", "e8">>

\* C16. from_color gives color c <= 15 the (c+1)-th of R1..R8, E1..E8 and
\* color n >= 16 the stack location of offset n - 15, so that Stack(off)
\* stands for color off + 15 and off >= 1; two distinct colors get two
\* distinct locations; and to_color gives a register's color back.
LocationBijection ==
    /\ pc \in {"locations", "colors again"} =>
          /\ \A i \in 1..2 :
                /\ input[i] <= 15 =>
                      program[i] = <<"Register", RegistersInOrder[input[i] + 1]>>
                /\ input[i] >= 16 => program[i] = <<"Stack", input[i] - 15>>
                /\ Tag(program[i]) = "Stack" =>
                      program[i][2] >= 1 /\ input[i] = program[i][2] + 15
          /\ input[1] # input[2] => program[1] # program[2]
    /\ pc = "colors again" => input[1] <= 15 /\ log = <<input[1]>>
    /\ (pc = "locations" /\ input[1] <= 15) => ENABLED ToColor

\* The last register's color has gone to its location and back, next to
\* the first color that is a stack location.
ColorsAtTheRegisterBoundary ==
    /\ pc = "colors again"
    /\ input = <<15, 16>>
    /\ program = <<<<"Register", "e8">>, <<"Stack", 1>>>>

\* ------------------------------------------------------------- TAP framing
\* The entry functions of the tests the log holds calls of, in order.
TestCalls ==
    LET calls == SelectSeq(log, LAMBDA entry :
                              Tag(entry) = "function" /\ entry[2][1] = "test")
    IN  [k \in 1..Len(calls) |-> calls[k][2][2]]

EofLine == <<"tellraw", <<"<EOF>">>>>

\* C17. A run of the emitted package prints "TAP version 14" first and
\* "1..N" second, N the number of tests; it calls test0, test1, ... in this
\* order, each once; and when it is over "<EOF>" is the last thing it has
\* printed, and has been printed once, after every test-point line.
TapFraming ==
    pc \in {"running", "done"} =>
        /\ Len(log) >= 2
        /\ log[1] = <<"tellraw", <<"TAP version 14">>>>
        /\ log[2] = <<"tellraw", <<"1..", Len(input)>>>>
        /\ Len(TestCalls) <= Len(input)
        /\ \A k \in 1..Len(TestCalls) : TestCalls[k] = k - 1
        /\ \A k \in 1..(Len(log) - 1) : log[k] # EofLine
        /\ pc = "done" =>
              /\ Len(TestCalls) = Len(input)
              /\ log[Len(log)] = EofLine
              /\ \A i \in 1..Len(input) : TestPoints(input[i].name) # <<>>

\* A package of two tests has been run to its end, and one test has
\* printed "ok" and the other "not ok".
RanTwoTests ==
    /\ pc = "done"
    /\ Len(input) = 2
    /\ \E k \in 1..Len(log) : log[k] = <<"tellraw", <<"ok - ", input[1].name>>>>
    /\ \E k \in 1..Len(log) : log[k] = <<"tellraw", <<"not ok - ", input[2].name>>>>

\* --------------------------------------------------------- fail-fast errors
\* The expressions of the statements of the input, with the test and the
\* statement each is in.
InputExprs ==
    UNION {UNION {{[test |-> i, stmt |-> k, expr |-> e] :
                       e \in Range(StmtExprs(input[i].stmts[k]))} :
                     k \in 1..Len(input[i].stmts)} : i \in 1..Len(input)}

RECURSIVE SubExprs(_)
SubExprs(expr) ==
    {expr} \cup
    CASE Tag(expr) \in {"LitBool", "LitInt", "Variable"} -> {}
      [] Tag(expr) = "If" ->
            SubExprs(expr[2]) \cup SubExprs(expr[3]) \cup SubExprs(expr[4])
      [] OTHER -> SubExprs(expr[2]) \cup SubExprs(expr[3])

\* A name is used that no earlier Let of the same test binds.
UnboundName ==
    \E x \in InputExprs : \E name \in Lookups(x.expr) :
        LetsBefore(x.test, x.stmt, name) = {}

\* An Assert has an integer literal for its condition.
AssertOfInteger ==
    \E i \in 1..Len(input) : \E k \in 1..Len(input[i].stmts) :
        Tag(input[i].stmts[k]) = "Assert" /\ Tag(input[i].stmts[k][2]) = "LitInt"

LiteralTags == {"LitBool", "LitInt"}

\* An AssertEq or an == compares a literal with a literal of the other type.
MixedLiteralEquality ==
    \/ \E i \in 1..Len(input) : \E k \in 1..Len(input[i].stmts) :
          LET stmt == input[i].stmts[k]
          IN  /\ Tag(stmt) = "AssertEq"
              /\ Tag(stmt[2]) \in LiteralTags /\ Tag(stmt[3]) \in LiteralTags
              /\ Tag(stmt[2]) # Tag(stmt[3])
    \/ \E x \in InputExprs : \E e \in SubExprs(x.expr) :
          /\ Tag(e) = "Eq"
          /\ Tag(e[2]) \in LiteralTags /\ Tag(e[3]) \in LiteralTags
          /\ Tag(e[2]) # Tag(e[3])

\* Programs of linearize's output with one block that assigns a Binary with
\* a unit operand. (No source gives linearize such a statement: unit only
\* comes from the bundles of desugar_asserts.)
UnitOperandPrograms ==
    {[blocks |-> << << <<"Assign", 1, <<"Binary", op, operands[1], operands[2]>>>> >> >>,
      edges |-> <<>>,
      tests |-> <<[name |-> TestNames[1], block |-> 0]>>,
      var_factory |-> 2] :
        op \in BinaryTags,
        operands \in {<< <<"LitUnit">>, <<"Var", 0>> >>, << <<"Var", 0>>, <<"LitUnit">> >>,
                      << <<"LitUnit">>, <<"LitInt", 1>> >>, << <<"LitInt", 1>>, <<"LitUnit">> >>,
                      << <<"LitUnit">>, <<"LitUnit">> >>}}

\* C18. Compilation of a program that uses an unbound name stops with a
\* panic in uniquify; compilation of a program that asserts an integer
\* literal or compares literals of different types stops with a panic in
\* select_instructions, as does select_instructions on a Binary with a unit
\* operand; and whenever a pass has panicked no function has been emitted.
FailFast ==
    /\ UnboundName => pc \in {"parse", "panic in uniquify"}
    /\ (~UnboundName /\ (AssertOfInteger \/ MixedLiteralEquality)) =>
          pc \in {"parse", "uniquify", "desugar_asserts", "linearize",
                  "panic in select_instructions"}
    /\ \A p \in UnitOperandPrograms : select_instructions(p).panic
    /\ pc \in {"panic in uniquify", "panic in select_instructions",
               "panic in assign_homes", "panic in reify_location"} => functions = <<>>

\* select_instructions has panicked on a program with an assertion of an
\* integer literal and an equality of an integer and a boolean literal.
PanickedOnIllTypedProgram ==
    /\ pc = "panic in select_instructions"
    /\ AssertOfInteger
    /\ MixedLiteralEquality
    /\ functions = <<>>

\* ------------------------------------------------ arithmetic under homes
\* The program select_instructions returned for the input (the passes up to
\* it have no choice to make).
Selected == select_instructions(linearize(desugar_asserts(uniquify(input))))

\* The instructions selected for one Assign(v, Binary(op, l, r)): they end
\* with the arithmetic Operation at position q of block b, and start one
\* instruction before it, or two when the right operand is a constant that
\* is first set to a temporary.
BinaryGroup(b, q) ==
    LET instrs == Selected.blocks[b]
        apply == instrs[q]
        constant_right == /\ Tag(instrs[q - 1]) = "Set"
                          /\ instrs[q - 1][2] = apply[3]
                          /\ apply[3] # apply[4]
        first == IF constant_right THEN q - 2 ELSE q - 1
    IN  [instrs |-> SubSeq(instrs, first, q),
         var |-> apply[4],
         op |-> apply[2],
         left |-> IF Tag(instrs[first]) = "Set" THEN <<"LitInt", instrs[first][3]>>
                  ELSE <<"Var", instrs[first][3]>>,
         right |-> IF constant_right THEN <<"LitInt", instrs[q - 1][3]>>
                   ELSE <<"Var", apply[3]>>]

BinaryGroups ==
    {BinaryGroup(pos[1], pos[2]) :
        pos \in {pos \in UNION {{<<b, q>> : q \in 1..Len(Selected.blocks[b])} :
                                   b \in 1..Len(Selected.blocks)} :
                    /\ Tag(Selected.blocks[pos[1]][pos[2]]) = "Operation"
                    /\ Selected.blocks[pos[1]][pos[2]][2] # "Equals"}}

\* The values the operands may hold before the group runs.
OperandValues == {1, 2, 3}

\* What the operator of a Binary means.
Arithmetic(op, l, r) ==
    CASE op = "PlusEquals" -> l + r
      [] op = "MinusEquals" -> l - r
      [] op = "TimesEquals" -> l * r
      [] op = "DivideEquals" -> l \div r

\* The scoreboard after the lines emitted for the instructions of a group,
\* rewritten to the locations of location_map, have run on sc.
RunGroup(instrs, location_map, sc) ==
    LET homed == [i \in 1..Len(instrs) |->
                     insert_jmps_instr(assign_homes_instr(instrs[i], location_map))]
        lines == emit_text_block(reify_location_block(homed))
    IN  exec_lines(lines, [scores |-> sc, log |-> <<>>]).scores

\* C19. With the locations assign_homes has chosen, the instructions
\* selected for every Assign(v, Binary(op, l, r)) leave l op r in v's
\* location, whatever values the locations of the operands held; and v's
\* location is not the one a variable right operand is read from, unless
\* that variable is the left operand too.
BinaryUnderHomes ==
    pc = "assign_homes" =>
        LET location_map == LocationMap(color_map)
            Holds(atom) == LocationText(location_map[atom[2]])
        IN  \A g \in BinaryGroups :
                /\ (Tag(g.right) = "Var" /\ g.left # g.right) =>
                      location_map[g.var] # location_map[g.right[2]]
                /\ \A given \in [{Holds(a) : a \in {a \in {g.left, g.right} : Tag(a) = "Var"}}
                                    -> OperandValues] :
                      LET Value(atom) == IF Tag(atom) = "Var" THEN given[Holds(atom)]
                                         ELSE atom[2]
                          before == [h \in Players |->
                                        IF h \in DOMAIN given THEN given[h] ELSE 0]
                      IN  RunGroup(g.instrs, location_map, before)[Holds(<<"Var", g.var>>)]
                              = Arithmetic(g.op, Value(g.left), Value(g.right))

\* assign_homes has chosen locations for a program with a Binary of a
\* variable and a constant, one of a constant and a variable, and one of
\* two variables.
HomesForBinaries ==
    /\ pc = "assign_homes"
    /\ \E g \in BinaryGroups : Tag(g.left) = "Var" /\ Tag(g.right) = "LitInt"
    /\ \E g \in BinaryGroups : Tag(g.left) = "LitInt" /\ Tag(g.right) = "Var"
    /\ \E g \in BinaryGroups : Tag(g.left) = "Var" /\ Tag(g.right) = "Var"

\* ------------------------------------------------ comparisons under homes
\* The code of one Assign(v, Cmp(=, x, k)), run on its own for every pair
\* of locations of x and v: input holds the locations, k and the value of
\* x; the steps store the value in x's location, run the guarded sets, and
\* read v's location into the log.
CmpLocations ==
    {<<"Register", "r1">>, <<"Register", "r2">>, <<"Stack", 1>>, <<"Stack", 2>>}

CmpValues == {0, 1, 2}

\* The lines emitted for instructions of assign_homes' output, run on the
\* scoreboard sc.
RunHomed(instrs, sc) ==
    LET homed == [i \in 1..Len(instrs) |-> insert_jmps_instr(instrs[i])]
    IN  exec_block(functions, emit_text_block(reify_location_block(homed)),
                   [scores |-> sc, log |-> <<>>]).scores

InitCmp ==
    /\ input \in [x : CmpLocations, v : CmpLocations, k : CmpValues, value : CmpValues]
    /\ input.x # input.v
    /\ pc = "cmp"
    /\ program = [blocks |-> <<>>, tests |-> <<>>]
    /\ move_graph = NoGraph
    /\ annotated = <<>>
    /\ interference_graph = NoGraph
    /\ pqueue = <<>>
    /\ color_map = <<>>
    /\ functions = emit_text([blocks |-> <<>>, tests |-> <<>>])
    /\ scores = exec_lines(straight_prefix(content_of(functions, <<"run">>)),
                           [scores |-> [h \in Players |-> 0], log |-> <<>>]).scores
    /\ frames = <<>>
    /\ log = <<>>

\* x is set to its value.
CmpStore ==
    /\ pc = "cmp"
    /\ scores' = RunHomed(<< <<"Set", input.x, input.value>> >>, scores)
    /\ pc' = "stored"
    /\ UNCHANGED <<input, program, move_graph, annotated, interference_graph, pqueue,
                   color_map, functions, frames, log>>

\* The two instructions select_instructions emits for the comparison, with
\* the locations in the place of x and v.
CmpRun ==
    /\ pc = "stored"
    /\ scores' = RunHomed(MatchesSetPair(input.x, input.k, input.v), scores)
    /\ pc' = "compared"
    /\ UNCHANGED <<input, program, move_graph, annotated, interference_graph, pqueue,
                   color_map, functions, frames, log>>

\* v is read the way an instruction that uses it reads it: a stack location
\* is popped into item.
CmpRead ==
    /\ pc = "compared"
    /\ LET st == exec_block(functions,
                            IF Tag(input.v) = "Stack" THEN emit_text_instr(Pop(input.v[2]))
                            ELSE <<>>,
                            [scores |-> scores, log |-> <<>>])
       IN  /\ scores' = st.scores
           /\ log' = <<st.scores[IF Tag(input.v) = "Stack" THEN Holder("item", "stack")
                                 ELSE LocationText(input.v)]>>
    /\ pc' = "read"
    /\ UNCHANGED <<input, program, move_graph, annotated, interference_graph, pqueue,
                   color_map, functions, frames>>

NextCmp == CmpStore \/ CmpRun \/ CmpRead

SpecCmp == InitCmp /\ [][NextCmp]_vars

\* C20. After the guarded sets of Assign(v, Cmp(=, x, k)) have run, v's
\* location holds 1 if x's value is k and 0 if it is not, whether x and v
\* are in registers or in stack slots.
CmpUnderHomes ==
    pc = "read" => log = <<IF input.value = input.k THEN 1 ELSE 0>>

\* ------------------------------------------------- reification, one step
\* One Set or Operation of assign_homes' output, run on its own: input
\* holds the instruction and the values the locations hold before it; the
\* step runs the lines emitted for it. Stack offsets are 1 up to the value
\* run gives ptr, the offsets whose cell push and pop have a line for.
ReifyLocations ==
    {<<"Register", "r1">>, <<"Register", "r2">>,
     <<"Stack", 1>>, <<"Stack", 2>>, <<"Stack", 10>>}

ReifyValues == {0, 3}

ReifyOps == {"Equals", "PlusEquals", "MinusEquals", "TimesEquals", "DivideEquals"}

ReifyInstrs ==
    {<<"Set", loc, n>> : loc \in ReifyLocations, n \in {1, 2}}
    \cup {<<"Operation", op, src, dst>> :
            op \in ReifyOps, src \in ReifyLocations, dst \in ReifyLocations}

\* The scoreboard after the preamble of run.
AfterPreamble(fns) ==
    exec_lines(straight_prefix(content_of(fns, <<"run">>)),
               [scores |-> [h \in Players |-> 0], log |-> <<>>]).scores

\* Where a location keeps its value: a register in its holder, the slot of
\* an offset in the cell push and pop select for it, ptr - offset.
HomeOf(location, sc) ==
    IF Tag(location) = "Register" THEN LocationText(location)
    ELSE Cell(sc[Holder("ptr", "stack")] - location[2])

\* The scoreboard in which every location of ReifyLocations holds its
\* value of vals.
Stored(vals, sc) ==
    [h \in Players |->
        IF \E loc \in ReifyLocations : HomeOf(loc, sc) = h
        THEN vals[CHOOSE loc \in ReifyLocations : HomeOf(loc, sc) = h]
        ELSE sc[h]]

InitReify ==
    /\ input \in [instr : ReifyInstrs, vals : [ReifyLocations -> ReifyValues]]
    /\ pc = "reify"
    /\ program = [blocks |-> <<>>, tests |-> <<>>]
    /\ move_graph = NoGraph
    /\ annotated = <<>>
    /\ interference_graph = NoGraph
    /\ pqueue = <<>>
    /\ color_map = <<>>
    /\ functions = emit_text([blocks |-> <<>>, tests |-> <<>>])
    /\ \E sc \in {AfterPreamble(functions)} : scores = Stored(input.vals, sc)
    /\ frames = <<>>
    /\ log = <<>>

\* The lines of the instruction run; the log keeps the scoreboard they
\* ran on.
ReifyRun ==
    /\ pc = "reify"
    /\ scores' = RunHomed(<<input.instr>>, scores)
    /\ log' = <<scores>>
    /\ pc' = "reified"
    /\ UNCHANGED <<input, program, move_graph, annotated, interference_graph, pqueue,
                   color_map, functions, frames>>

NextReify == ReifyRun

SpecReify == InitReify /\ [][NextReify]_vars

\* What the abstract instruction leaves in a location that held vals.
AbstractResult(instr, vals, loc) ==
    CASE Tag(instr) = "Set" -> IF loc = instr[2] THEN instr[3] ELSE vals[loc]
      [] Tag(instr) = "Operation" ->
            IF loc = instr[4]
            THEN apply_operation(OpText(instr[2]), vals[instr[4]], vals[instr[3]])
            ELSE vals[loc]

\* The holders that are neither item, scratch nor the working cells of
\* push and pop: the registers and the cells of the stack.
KeptHolders ==
    Players \ ({Holder("scratch", "registry")}
                \cup {Holder(p, "stack") : p \in {"ptr", "offset", "item", "tmp"}})

\* C21. After the lines reify_location emits for a Set or an Operation on
\* registers and in-range stack slots have run, the destination holds what
\* the instruction asks for (n, or dst op src), every other register and
\* every other stack cell holds what it held before, and an Operation(=)
\* of a location with itself has no lines at all.
ReificationRefines ==
    pc = "reified" =>
        LET before == log[1]
            written == IF Tag(input.instr) = "Set" THEN input.instr[2] ELSE input.instr[4]
        IN  /\ \A loc \in ReifyLocations :
                    scores[HomeOf(loc, scores)] = AbstractResult(input.instr, input.vals, loc)
            /\ \A h \in KeptHolders :
                    h # HomeOf(written, scores) => scores[h] = before[h]
            /\ scores[Holder("ptr", "stack")] = before[Holder("ptr", "stack")]
            /\ (Tag(input.instr) = "Operation" /\ input.instr[2] = "Equals"
                    /\ input.instr[3] = input.instr[4])
                    => reify_location_instr(input.instr) = <<>>

ReifiedStackToStack ==
    /\ pc = "reified"
    /\ input.instr = <<"Operation", "MinusEquals", <<"Stack", 1>>, <<"Stack", 10>>>>
    /\ input.vals[<<"Stack", 1>>] = 3
    /\ input.vals[<<"Stack", 10>>] = 0
    /\ input.vals[<<"Stack", 2>>] = 3
    /\ scores[Cell(0)] = 0 - 3

\* ------------------------------------------------------- DSATUR selection
\* The colored variables move-related to a node.
ColoredRelatives(n) == {r \in DOMAIN color_map : move_related(move_graph, n, r)}

\* C22. While color_graph loops, every queued node is uncolored, its stored
\* saturation is the number of distinct colors of its colored interference
\* neighbors, and its stored move_saturation is the number of colored
\* variables move-related to it (pop then takes a node whose stored
\* priority is greatest).
DsaturSelection ==
    pc = "color_graph" =>
        \A n \in DOMAIN pqueue :
            /\ n \notin DOMAIN color_map
            /\ pqueue[n].saturation
                    = Cardinality(find_conflicting_colors(interference_graph, color_map, n))
            /\ pqueue[n].move_saturation = Cardinality(ColoredRelatives(n))

\* ----------------------------------------------------- block-exit liveness
\* The live set after the last instruction of an annotated block (its
\* instructions are kept last first); for a block without instructions,
\* the set the block starts from.
ExitLive(block) ==
    IF block.instrs = <<>> THEN block.live_before ELSE block.instrs[1].live_after

\* The variables the guard of an edge reads.
GuardReads(jmp) ==
    CASE Tag(jmp) \in MatchesFunctions -> {jmp[2]}
      [] Tag(jmp) \in EqualsFunctions -> {jmp[2], jmp[3]}
      [] Tag(jmp) = "Function" -> {}

\* The block an edge's jump names.
TargetOf(jmp) == IF Tag(jmp) = "Function" THEN jmp[2] ELSE jmp[4]

\* C23. After uncover_live, the live set at the exit of every block is the
\* union, over its outgoing edges, of the successor's live_before and the
\* variables the edge's guard reads; a block without successors has an
\* empty exit set.
BlockExitLiveness ==
    (pc = "uncover_live") =>
        \A b \in 1..Len(annotated.blocks) :
            LET out == {e \in Range(program.edges) : e.src = b - 1}
            IN  /\ ExitLive(annotated.blocks[b])
                    = UNION {annotated.blocks[e.dst + 1].live_before \cup GuardReads(e.jmp) :
                                e \in out}
                /\ \A e \in out : TargetOf(e.jmp) = e.dst
                /\ out = {} => ExitLive(annotated.blocks[b]) = {}

\* A block leaves through a matches-guard whose variable its successor does
\* not read, to a successor that has live variables of its own.
AnnotatedGuardedExits ==
    /\ pc = "uncover_live"
    /\ \E e \in Range(program.edges) :
            /\ Tag(e.jmp) \in MatchesFunctions
            /\ e.jmp[2] \notin annotated.blocks[e.dst + 1].live_before
            /\ annotated.blocks[e.dst + 1].live_before # {}

\* ----------------------------------------------------- constant conditions
\* Programs whose assertions and ifs have conditions made of literals: the
\* pipeline is run on them as it is on Programs.
ConstPool ==
    { <<"Assert", <<"LitBool", TRUE>>>>,
      <<"Assert", <<"LitBool", FALSE>>>>,
      <<"AssertEq", <<"LitInt", 1>>, <<"LitInt", 1>>>>,
      <<"AssertEq", <<"LitInt", 1>>, <<"LitInt", 2>>>>,
      <<"AssertEq", <<"LitBool", TRUE>>, <<"LitBool", TRUE>>>>,
      <<"AssertEq", <<"LitBool", TRUE>>, <<"LitBool", FALSE>>>>,
      <<"Let", "b", <<"If", <<"LitBool", TRUE>>, <<"LitInt", 2>>, <<"LitInt", 1>>>>>>,
      <<"Let", "b", <<"If", <<"Eq", <<"LitInt", 2>>, <<"LitInt", 1>>>>,
                            <<"LitInt", 2>>, <<"LitInt", 1>>>>>> }

ConstPrograms ==
    {<<[name |-> TestNames[1], stmts |-> s]>> :
        s \in UNION {[1..k -> ConstPool] : k \in 1..2}}

InitConst ==
    /\ input \in ConstPrograms
    /\ pc = "parse"
    /\ program = input
    /\ move_graph = NoGraph
    /\ annotated = <<>>
    /\ interference_graph = NoGraph
    /\ pqueue = <<>>
    /\ color_map = <<>>
    /\ functions = <<>>
    /\ scores = [h \in Players |-> 0]
    /\ frames = <<>>
    /\ log = <<>>

SpecConst == InitConst /\ [][Next]_vars

\* Whether a condition is a boolean literal or an equality of two literals
\* of one type, and what it evaluates to.
IsConstant(cond) ==
    \/ Tag(cond) = "Atm" /\ Tag(cond[2]) = "LitBool"
    \/ /\ Tag(cond) = "Cmp"
       /\ Tag(cond[3]) \in {"LitBool", "LitInt"}
       /\ Tag(cond[3]) = Tag(cond[4])

ConstantValue(cond) ==
    IF Tag(cond) = "Atm" THEN cond[2][2] ELSE cond[3][2] = cond[4][2]

\* C24. When select_instructions rewrites a block that branches on a
\* constant condition, one edge leaves the block afterwards: a Function
\* jump to the target of the If edge when the condition is true, to the
\* target of the Unless edge when it is false.
ConstantCollapse ==
    [][(pc = "linearize" /\ pc' = "select_instructions") =>
            \A e \in Range(program.edges) :
                (Tag(e.jmp) = "If" /\ IsConstant(e.jmp[2])) =>
                    LET thn == e.dst
                        els == (CHOOSE f \in Range(program.edges) :
                                    f.src = e.src /\ Tag(f.jmp) = "Unless").dst
                        chosen == IF ConstantValue(e.jmp[2]) THEN thn ELSE els
                    IN  {f \in Range(program'.edges) : f.src = e.src}
                            = {[src |-> e.src, dst |-> chosen,
                                jmp |-> <<"Function", chosen>>]}
       ]_vars

\* The program as linearize leaves it.
Linearized == linearize(desugar_asserts(uniquify(input)))

\* select_instructions has rewritten a program that branches on a true
\* boolean literal and on an equality of two unequal integers.
CollapsedBothWays ==
    /\ pc = "select_instructions"
    /\ \E e \in Range(Linearized.edges) :
          /\ Tag(e.jmp) = "If" /\ e.jmp[2] = <<"Atm", <<"LitBool", TRUE>>>>
          /\ \E f \in Range(program.edges) : f.src = e.src /\ f.dst = e.dst
    /\ \E e \in Range(Linearized.edges) :
          /\ Tag(e.jmp) = "Unless"
          /\ e.jmp[2] = <<"Cmp", "Eq", <<"LitInt", 1>>, <<"LitInt", 2>>>>
          /\ \E f \in Range(program.edges) : f.src = e.src /\ f.dst = e.dst

\* ------------------------------------------------------- desugar structure
\* What the statements of a test become, read from the first statement on:
\* a Let or a Command stays and the rest follows it; an assertion becomes
\* an if with the rest inside its then-bundle; after the last statement
\* comes TellOk.
RECURSIVE Desugared(_, _)
Desugared(test_name, stmts) ==
    IF stmts = <<>> THEN << <<"TellOk", test_name>> >>
    ELSE LET stmt == Head(stmts)
             rest == Desugared(test_name, Tail(stmts))
             else_bundle == <<"Bundle", << <<"TellNotOk", test_name>> >>, <<"LitUnit">>>>
         IN  CASE Tag(stmt) \in {"Let", "Command"} -> <<stmt>> \o rest
               [] Tag(stmt) = "Assert" ->
                     << <<"Expr", <<"If", stmt[2],
                                    <<"Bundle", rest, <<"LitUnit">>>>, else_bundle>>>> >>
               [] Tag(stmt) = "AssertEq" ->
                     << <<"Expr", <<"If", <<"Eq", stmt[2], stmt[3]>>,
                                    <<"Bundle", rest, <<"LitUnit">>>>, else_bundle>>>> >>

IsAssertIf(stmt) ==
    Tag(stmt) = "Expr" /\ Tag(stmt[2]) = "If" /\ Tag(stmt[2][3]) = "Bundle"

\* Every statement of a desugared list, those inside the bundles of its ifs
\* included.
RECURSIVE AllStatements(_)
AllStatements(stmts) ==
    Flatten([k \in 1..Len(stmts) |->
                IF IsAssertIf(stmts[k])
                THEN <<stmts[k]>> \o AllStatements(stmts[k][2][3][2])
                                 \o AllStatements(stmts[k][2][4][2])
                ELSE <<stmts[k]>>])

\* The list no if ends: the innermost continuation.
RECURSIVE Innermost(_)
Innermost(stmts) ==
    IF stmts # <<>> /\ IsAssertIf(stmts[Len(stmts)])
    THEN Innermost(stmts[Len(stmts)][2][3][2])
    ELSE stmts

CountOf(seq, tags) == Cardinality({k \in 1..Len(seq) : Tag(seq[k]) \in tags})

\* C25. desugar_asserts turns the statements of every test into the list in
\* which Lets and Commands keep their order, every assertion is an if with
\* the statements that follow it in its then-bundle and TellNotOk of the
\* test alone in its else-bundle; TellOk of the test occurs once, as the
\* last statement of the innermost continuation, and TellNotOk once per
\* assertion.
DesugarStructure ==
    [][(pc = "uniquify" /\ pc' = "desugar_asserts") =>
            /\ Len(program'.defs) = Len(program.defs)
            /\ \A i \in 1..Len(program.defs) :
                  LET def == program.defs[i]
                      out == program'.defs[i].stmts
                      all == AllStatements(out)
                      inner == Innermost(out)
                  IN  /\ program'.defs[i].name = def.name
                      /\ out = Desugared(def.name, def.stmts)
                      /\ CountOf(all, {"TellOk"}) = 1
                      /\ inner[Len(inner)] = <<"TellOk", def.name>>
                      /\ CountOf(all, {"TellNotOk"})
                            = CountOf(def.stmts, {"Assert", "AssertEq"})
                      /\ SelectSeq(all, LAMBDA t : Tag(t) \in {"Let", "Command"})
                            = SelectSeq(def.stmts, LAMBDA t : Tag(t) \in {"Let", "Command"})
       ]_vars

\* A test of a Let and two assertions has been desugared: the if of the
\* second assertion lies in the then-bundle of the first.
DesugaredTwoAssertions ==
    /\ pc = "desugar_asserts"
    /\ \E i \in 1..Len(program.defs) :
          LET out == program.defs[i].stmts
          IN  /\ Len(out) = 2
              /\ Tag(out[1]) = "Let"
              /\ IsAssertIf(out[2])
              /\ LET thn == out[2][2][3][2]
                 IN  /\ Len(thn) = 1
                     /\ IsAssertIf(thn[1])
                     /\ thn[1][2][3][2] = << <<"TellOk", program.defs[i].name>> >>

\* ------------------------------------------------------------ acyclicity
\* The blocks reached from the blocks of S by up to n edges, one at least.
RECURSIVE Descendants(_, _)
Descendants(S, n) ==
    IF n = 0 THEN {}
    ELSE LET next == {e.dst : e \in {f \in Range(program.edges) : f.src \in S}}
         IN  next \cup Descendants(next, n - 1)

\* C26. The block graph linearize builds, and select_instructions keeps, has
\* no cycle, so uncover_live finds an order in which every block comes
\* after all its successors and does not panic.
AcyclicBlocks ==
    /\ pc \in {"linearize", "select_instructions", "build_move", "uncover_live"} =>
            \A idx \in 0..(Len(program.blocks) - 1) :
                idx \notin Descendants({idx}, Len(program.blocks))
    /\ pc = "build_move" => ~uncover_live(program).panic
    /\ pc = "uncover_live" =>
            /\ ~annotated.panic
            /\ Len(annotated.blocks) = Len(program.blocks)

\* uncover_live has annotated a graph in which a join block is reached
\* along two paths.
AnnotatedJoin ==
    /\ pc = "uncover_live"
    /\ \E e, f \in Range(program.edges) : e.dst = f.dst /\ e.src # f.src
    /\ \E e, f \in Range(program.edges) : e.dst = f.src

\* ------------------------------------------------- no read before write
\* Whether the instructions instrs, run from position k with the variables
\* of written already written, read only written variables; and the
\* variables written once they have run.
RECURSIVE ReadsWritten(_, _, _)
ReadsWritten(instrs, k, written) ==
    IF k > Len(instrs) THEN TRUE
    ELSE /\ read_set(instrs[k]) \subseteq written
         /\ ReadsWritten(instrs, k + 1, written \cup write_set(instrs[k]))

WrittenBy(instrs) == UNION {write_set(instrs[k]) : k \in 1..Len(instrs)}

\* Whether on every path that starts at the block of index idx, with the
\* variables of written already written, the instructions and the guards
\* of the edges read only written variables.
RECURSIVE PathsReadWritten(_, _)
PathsReadWritten(idx, written) ==
    LET instrs == program.blocks[idx + 1]
        after == written \cup WrittenBy(instrs)
    IN  /\ ReadsWritten(instrs, 1, written)
        /\ \A e \in {f \in Range(program.edges) : f.src = idx} :
              /\ GuardReads(e.jmp) \subseteq after
              /\ PathsReadWritten(e.dst, after)

\* C27. After uncover_live the live_before set of the entry block of every
\* test is empty, and on every path from a test's entry a variable is
\* written before an instruction or the guard of a jump reads it.
NoReadBeforeWrite ==
    pc = "uncover_live" =>
        \A i \in 1..Len(program.tests) :
            /\ annotated.blocks[program.tests[i].block + 1].live_before = {}
            /\ PathsReadWritten(program.tests[i].block, {})

\* uncover_live has annotated a test whose entry block writes a variable
\* that a later block reads, in an instruction and in the guard of a jump.
AnnotatedReadsAcrossBlocks ==
    /\ pc = "uncover_live"
    /\ \E i \in 1..Len(program.tests) :
          LET entry == program.tests[i].block
          IN  /\ \E e \in Range(program.edges) :
                    /\ e.src = entry
                    /\ GuardReads(e.jmp) # {}
                    /\ GuardReads(e.jmp) \subseteq WrittenBy(program.blocks[entry + 1])
              /\ \E b \in 1..Len(program.blocks) :
                    /\ b - 1 # entry
                    /\ \E k \in 1..Len(program.blocks[b]) :
                          read_set(program.blocks[b][k])
                              \cap WrittenBy(program.blocks[entry + 1]) # {}

\* ------------------------------------------------------ test independence
\* One test, compiled and then called on a scoreboard that earlier tests
\* have used: the passes are those of Spec, the test's variables get the
\* homes they have when other variables hold the first colors, and the
\* test's function is called with ptr as run sets it and any values in the
\* other holders.
IndepPrograms == {p \in Programs : Len(p) = 1}

\* How many colors other variables hold: none, all but the last register,
\* all registers and all but the last slot in range.
OtherColors == {0, 15, 25}

\* What the holders of the registry and those of the stack hold when the
\* test is called: values the guards of the programs compare with.
UsedScoreboards == {<<1, 5>>, <<5, 1>>}

InitIndep ==
    /\ input \in IndepPrograms
    /\ pc = "parse"
    /\ program = input
    /\ move_graph = NoGraph
    /\ annotated = <<>>
    /\ interference_graph = NoGraph
    /\ pqueue = <<>>
    /\ color_map = <<>>
    /\ functions = <<>>
    /\ scores = [h \in Players |-> 0]
    /\ frames = <<>>
    /\ log = <<>>

AssignHomesAmongOthers ==
    /\ pc = "color_graph"
    /\ DOMAIN pqueue = {}
    /\ \E others \in OtherColors :
          LET location_map == [var \in DOMAIN color_map |->
                                  from_color(color_map[var] + others)]
              result == assign_homes_program(program, location_map)
          IN  /\ program' = result
              /\ pc' = IF result.panic THEN "panic in assign_homes" ELSE "assign_homes"
    /\ UNCHANGED <<input, move_graph, annotated, interference_graph, pqueue, color_map,
                   functions, scores, frames, log>>

\* The scoreboard a test starts on: ptr as the preamble of run leaves it,
\* the holders of the registry at one value and those of the stack at
\* another.
StartScores(fns, registry, stack) ==
    LET ptr == AfterPreamble(fns)[Holder("ptr", "stack")]
    IN  [h \in Players |->
            IF h = Holder("ptr", "stack") THEN ptr
            ELSE IF Len(h) = 2 /\ h[2] = "registry" THEN registry ELSE stack]

FirstTest == <<[name |-> <<"test", 0>>, line |-> 1]>>

\* A run of the functions from the scoreboard sc and the call stack fr up
\* to its end: [scores, log].
RECURSIVE RunToEnd(_, _, _, _)
RunToEnd(fns, sc, lg, fr) ==
    IF fr = <<>> THEN [scores |-> sc, log |-> lg]
    ELSE LET r == step(fns, sc, lg, fr)
         IN  RunToEnd(fns, r.scores, r.log, r.frames)

\* function mctest:test0, called on a used scoreboard and run to its end.
RunTest ==
    /\ pc = "emit_text"
    /\ \E used \in UsedScoreboards :
          \E sc \in {StartScores(functions, used[1], used[2])} :
          \E end \in {RunToEnd(functions, sc, <<>>, unwind(functions, FirstTest))} :
              /\ scores' = end.scores
              /\ log' = end.log
    /\ pc' = "done"
    /\ UNCHANGED <<input, program, move_graph, annotated, interference_graph, pqueue,
                   color_map, functions, frames>>

NextIndep ==
    \/ Uniquify
    \/ DesugarAsserts
    \/ Linearize
    \/ SelectInstructions
    \/ BuildMove
    \/ UncoverLive
    \/ BuildInterference
    \/ ColorGraphStart
    \/ ColorGraphStep
    \/ AssignHomesAmongOthers
    \/ InsertJmps
    \/ ReifyLocation
    \/ EmitText
    \/ RunTest

SpecIndep == InitIndep /\ [][NextIndep]_vars

\* C28. What a test prints, runs and calls is what it prints, runs and
\* calls on the scoreboard the preamble of run leaves, whatever the
\* registers, item, scratch and the cells of the stack held when it was
\* called.
TestIndependence ==
    pc = "done" =>
        log = RunToEnd(functions, StartScores(functions, 0, 0), <<>>,
                       unwind(functions, FirstTest)).log

\* A test that keeps a variable in a stack slot has run to its end, and has
\* printed, on a scoreboard whose registers and cells held other values.
RanOnUsedScoreboard ==
    /\ pc = "done"
    /\ scores[Holder("a8", "registry")] = 5
    /\ scores[Cell(31)] = 1
    /\ \E k \in 1..Len(log) : Tag(log[k]) = "tellraw"
    /\ \E i \in 1..Len(functions) : \E k \in 1..Len(functions[i].content) :
          functions[i].content[k] = FunctionLine(<<"pop">>)

\* ---------------------------------------------------------- jumps resolve
\* The names the lines of the package call, as the line itself or as what a
\* guarded line runs.
CalledNames ==
    {l[2] : l \in {line \in UNION {Range(functions[i].content) : i \in 1..Len(functions)} :
                        Tag(line) = "function"}}
    \cup {l[5][2] :
            l \in {line \in UNION {Range(functions[i].content) : i \in 1..Len(functions)} :
                        Tag(line) = "execute" /\ Tag(line[5]) = "function"}}

FunctionNames == {functions[i].name : i \in 1..Len(functions)}

\* C29. Every function a line of the emitted package calls, block{b} above
\* all, is a function of the package; and in the block graph, from
\* linearize on, no edge goes to the entry block of a test.
JumpsResolve ==
    /\ pc \in {"emit_text", "running", "done"} =>
            /\ CalledNames \subseteq FunctionNames
            /\ \A i \in 1..Len(program.tests) :
                    <<"block", program.tests[i].block>> \notin CalledNames
    /\ pc \in {"linearize", "select_instructions", "build_move", "uncover_live",
                "build_interference", "color_graph", "assign_homes"} =>
            \A e \in Range(program.edges), i \in 1..Len(program.tests) :
                e.dst # program.tests[i].block

\* A package of two tests has been emitted in which a guarded line and a
\* plain line call a block, the second test starting at a block other than
\* the first or the last.
EmittedJumps ==
    /\ pc = "emit_text"
    /\ Len(program.tests) = 2
    /\ program.tests[2].block \notin {0, Len(program.blocks) - 1}
    /\ \E i \in 1..Len(functions) : \E k \in 1..Len(functions[i].content) :
          LET line == functions[i].content[k]
          IN  Tag(line) = "execute" /\ Tag(line[5]) = "function"
    /\ \E i \in 1..Len(functions) : \E k \in 1..Len(functions[i].content) :
          LET line == functions[i].content[k]
          IN  Tag(line) = "function" /\ line[2][1] = "block"

\* ------------------------------------------------------- no needless spill
\* color_graph and the step from colors to locations, run on every
\* interference graph of up to MaxNodes variables and every move graph of
\* at most one edge over them.
GraphNodes == 0..(MaxNodes - 1)

NodePairs == {{u, v} : u, v \in GraphNodes} \ {{u} : u \in GraphNodes}

InitGraph ==
    /\ input = <<>>
    /\ pc = "build_interference"
    /\ program = [blocks |-> <<>>, edges |-> <<>>, tests |-> <<>>]
    /\ \E n \in 1..MaxNodes :
          LET nodes == 0..(n - 1)
              pairs == {p \in NodePairs : p \subseteq nodes}
          IN  /\ interference_graph \in
                    {[nodes |-> nodes, edges |-> edges, panic |-> FALSE] :
                        edges \in SUBSET pairs}
              /\ move_graph \in
                    {[nodes |-> nodes, edges |-> edges] :
                        edges \in {{}} \cup {{p} : p \in pairs}}
    /\ annotated = <<>>
    /\ pqueue = <<>>
    /\ color_map = <<>>
    /\ functions = <<>>
    /\ scores = [h \in Players |-> 0]
    /\ frames = <<>>
    /\ log = <<>>

NextGraph == ColorGraphStart \/ ColorGraphStep \/ AssignHomes

SpecGraph == InitGraph /\ [][NextGraph]_vars

\* The greatest number of interference neighbors a node has.
MaxDegree ==
    LET degrees == {Cardinality(neighbors(interference_graph, n)) :
                        n \in interference_graph.nodes}
    IN  CHOOSE d \in degrees : \A e \in degrees : e <= d

\* C30. The color a step of color_graph gives a node is a color of an
\* already-colored move-related variable, or is at most the number of
\* distinct colors of the node's already-colored interference neighbors; no
\* color is above the greatest degree of the interference graph, and when
\* that degree is below 16 every variable gets a register.
NoNeedlessSpill ==
    [][(pc = "color_graph" /\ DOMAIN color_map' # DOMAIN color_map) =>
            LET n == CHOOSE v \in DOMAIN color_map' : v \notin DOMAIN color_map
                c == color_map'[n]
                conflicts == {color_map[w] :
                                w \in neighbors(interference_graph, n) \cap DOMAIN color_map}
                related == {color_map[r] :
                                r \in {q \in DOMAIN color_map :
                                            move_related(move_graph, n, q)}}
            IN  /\ c \in related \/ c <= Cardinality(conflicts)
                /\ \A v \in DOMAIN color_map' :
                      /\ color_map'[v] <= MaxDegree
                      /\ MaxDegree < 16 => Tag(from_color(color_map'[v])) = "Register"
       ]_vars

\* color_graph has colored a graph in which some node has all others as
\* neighbors, and a node whose neighbors hold no color 0 has a color above
\* 0, taken from the variable it is move-related to.
ColoredByMoveAndByDegree ==
    /\ pc = "color_graph"
    /\ DOMAIN pqueue = {}
    /\ MaxDegree = MaxNodes - 1
    /\ \E n \in DOMAIN color_map :
          /\ color_map[n] > 0
          /\ \A w \in neighbors(interference_graph, n) : color_map[w] # 0
          /\ \E r \in DOMAIN color_map :
                move_related(move_graph, n, r) /\ color_map[r] = color_map[n]

====
